---- MODULE Spec2Model ----
(***************************************************************************)
(* TIA-Tools: the binary extraction engine of tia_project_reader.py and    *)
(* the tag exporter of tia_tag_export.py.                                  *)
(*                                                                         *)
(* Byte strings are sequences of numbers 0..255.  Positions and cursors    *)
(* are 0-based as in the source; At(s, k) reads Python's s[k].             *)
(***************************************************************************)
EXTENDS Integers, Sequences, FiniteSets, TLC

VARIABLES
    mode,         \* which program part this behaviour exercises
    parts,        \* how the input buffer was put together (chunk indices)
    data,         \* _extract_zlib_blocks: local `data` (= self._plf_data)
    i,            \* _extract_zlib_blocks: the scan cursor
    zlib_blocks,  \* self._zlib_blocks
    strings,      \* _extract_length_prefixed_strings: the token list
    pc,           \* position in the running loop: "loop" or "done"
    last,         \* the loop iteration just run: where, and how it ended
    disk,         \* the project directory: the .ap file, PEData.plf, XRef.db
    returned,     \* what the calls of read() / parse() returned, in call order
    tags,         \* TiaTagExporter: self._tags
    parsed        \* TiaTagExporter: self._parsed

vars == <<mode, parts, data, i, zlib_blocks, strings, pc, last, disk, returned, tags, parsed>>

-----------------------------------------------------------------------------
(* Byte-string helpers (Python slicing and indexing).                      *)

At(s, k) == s[k + 1]

\* s[a:b] for 0 <= a, clipped to the length of s as Python does
Slice(s, a, b) == SubSeq(s, a + 1, IF b > Len(s) THEN Len(s) ELSE b)

\* s[a:]
From(s, a) == SubSeq(s, a + 1, Len(s))

Min(a, b) == IF a < b THEN a ELSE b

\* F applied to the value v, which is computed once
Let(v, F(_)) == F(v)

\* the least k in lo..hi with P(k), or -1
FirstWhere(lo, hi, P(_)) ==
    IF \E k \in lo..hi : P(k)
    THEN CHOOSE k \in lo..hi : P(k) /\ \A j \in lo..(k - 1) : ~P(j)
    ELSE -1

\* the greatest k in lo..hi with P(k), or -1
LastWhere(lo, hi, P(_)) ==
    IF \E k \in lo..hi : P(k)
    THEN CHOOSE k \in lo..hi : P(k) /\ \A j \in (k + 1)..hi : ~P(j)
    ELSE -1

RECURSIVE Concat(_)
Concat(ss) == IF ss = <<>> THEN <<>> ELSE Head(ss) \o Concat(Tail(ss))

-----------------------------------------------------------------------------
(* zlib.decompressobj().decompress(buf): the library call of the scanner.  *)
(* Modelled for the zlib container (RFC 1950) holding stored deflate       *)
(* blocks (RFC 1951, BTYPE=00): header check, LEN/NLEN check, Adler-32     *)
(* trailer check.  A stream that ends early is not an error: the bytes     *)
(* decoded so far are returned, eof stays false and nothing is unused.     *)

RECURSIVE ByteSum(_, _, _)
ByteSum(s, lo, hi) ==
    IF lo > hi THEN 0
    ELSE IF lo = hi THEN s[lo]
    ELSE LET mid == (lo + hi) \div 2
         IN  ByteSum(s, lo, mid) + ByteSum(s, mid + 1, hi)

\* sum over k of (n - k + 1) * s[k]
RECURSIVE WeightedSum(_, _, _, _)
WeightedSum(s, lo, hi, n) ==
    IF lo > hi THEN 0
    ELSE IF lo = hi THEN (n - lo + 1) * s[lo]
    ELSE LET mid == (lo + hi) \div 2
         IN  WeightedSum(s, lo, mid, n) + WeightedSum(s, mid + 1, hi, n)

\* the four trailer bytes, big-endian, of the Adler-32 of s
Adler32(s) ==
    LET n == Len(s)
        a == (1 + ByteSum(s, 1, n)) % 65521
        b == (n + WeightedSum(s, 1, n, n)) % 65521
    IN  <<b \div 256, b % 256, a \div 256, a % 256>>

ZlibHeaderOk(cmf, flg) ==
    /\ cmf % 16 = 8
    /\ cmf \div 16 <= 7
    /\ (cmf * 256 + flg) % 31 = 0
    /\ (flg \div 32) % 2 = 0

InflateError == [ok |-> FALSE, out |-> <<>>, unused |-> 0, eof |-> FALSE, huffman |-> FALSE]

\* buf from block header position p on, with `out` decoded so far
RECURSIVE InflateBlocks(_, _, _)
InflateBlocks(buf, p, out) ==
    LET n      == Len(buf)
        short  == [ok |-> TRUE, out |-> out, unused |-> 0, eof |-> FALSE, huffman |-> FALSE]
    IN
    IF p >= n THEN short
    ELSE
      LET hdr    == At(buf, p)
          bfinal == hdr % 2
          btype  == (hdr \div 2) % 4
      IN
      IF btype = 3 THEN InflateError
      ELSE IF btype # 0 THEN [InflateError EXCEPT !.huffman = TRUE]
      ELSE IF n - (p + 1) < 4 THEN short
      ELSE
        LET len  == At(buf, p + 1) + 256 * At(buf, p + 2)
            nlen == At(buf, p + 3) + 256 * At(buf, p + 4)
            q    == p + 5 + len
        IN
        IF len + nlen # 65535 THEN InflateError
        ELSE IF n < q THEN [short EXCEPT !.out = out \o From(buf, p + 5)]
        ELSE
          LET out2 == out \o Slice(buf, p + 5, q)
          IN
          IF bfinal = 0 THEN InflateBlocks(buf, q, out2)
          ELSE IF n - q < 4 THEN [short EXCEPT !.out = out2]
          ELSE IF Slice(buf, q, q + 4) # Adler32(out2) THEN InflateError
          ELSE [ok |-> TRUE, out |-> out2, unused |-> n - (q + 4), eof |-> TRUE,
                huffman |-> FALSE]

\* obj.decompress(buf); .unused is len(obj.unused_data)
Inflate(buf) ==
    IF Len(buf) < 2 THEN [ok |-> TRUE, out |-> <<>>, unused |-> 0, eof |-> FALSE, huffman |-> FALSE]
    ELSE IF ~ZlibHeaderOk(At(buf, 0), At(buf, 1)) THEN InflateError
    ELSE InflateBlocks(buf, 2, <<>>)

\* zlib.compress(orig, 0): one final stored block
Compress(orig) ==
    LET len == Len(orig)
    IN  <<120, 1, 1, len % 256, len \div 256, (65535 - len) % 256, (65535 - len) \div 256>>
          \o orig \o Adler32(orig)

-----------------------------------------------------------------------------
(* TiaProjectReader._extract_zlib_blocks                                    *)

MIN_SIZE == 10

\* the signature test with the level-0 second byte 0x01 left out
IsSignature_no01(d, k) == At(d, k) = 120 /\ At(d, k + 1) \in {94, 156, 218}

IsSignature(d, k) == At(d, k) = 120 /\ At(d, k + 1) \in {1, 94, 156, 218}

\* the loop stops one position earlier
ScanGuard_short(d, k) == k < Len(d) - 3

\* while i < len(data) - 2
ScanGuard(d, k) == k < Len(d) - 2

\* comp_size = len(data[i:]) - len(obj.unused_data)
CompSize(d, k, r) == Len(From(d, k)) - r.unused

\* the minimum-size test left out
Accepted_anysize(r) == r.ok

\* the try body reached the append: no exception and len(decompressed) >= 10
Accepted(r) == r.ok /\ Len(r.out) >= MIN_SIZE

Segment(d, k, r) ==
    [offset |-> k, comp_size |-> CompSize(d, k, r), data |-> r.out, size |-> Len(r.out)]

\* the cursor steps into the accepted segment instead of past it
AcceptAdvance_into(k, seg) == k + 1

\* i += comp_size; continue
AcceptAdvance(k, seg) == k + seg.comp_size

\* the cursor stays where it is after a position that was not accepted
RejectAdvance_stay(k) == k

\* the cursor skips a byte after a position that was not accepted
RejectAdvance_skip(k) == k + 2

\* i += 1
RejectAdvance(k) == k + 1

\* one iteration of the while loop: the new cursor and block list
ScanStep(d, k, blocks) ==
    LET r == Inflate(From(d, k))
    IN  IF IsSignature(d, k) /\ Accepted(r)
        THEN [i |-> AcceptAdvance(k, Segment(d, k, r)),
              blocks |-> Append(blocks, Segment(d, k, r))]
        ELSE [i |-> RejectAdvance(k), blocks |-> blocks]

\* the scanner accepts position k of buffer d when its cursor gets there
AcceptedAt(d, k) ==
    ScanGuard(d, k) /\ IsSignature(d, k) /\ Accepted(Inflate(From(d, k)))

\* the loop from cursor k on.  A position without a signature moves the
\* cursor by one, so the next iteration that decompresses is at the first
\* signature at or behind k.
RECURSIVE ScanFrom(_, _, _)
ScanFrom(d, k, blocks) ==
    Let(FirstWhere(k, Len(d) - 3, LAMBDA p : IsSignature(d, p)), LAMBDA a :
        IF a = -1 THEN blocks
        ELSE Let(ScanStep(d, a, blocks), LAMBDA s : ScanFrom(d, s.i, s.blocks)))

\* the segment list is kept from the previous run
ScanStart_keep(old) == old

\* self._zlib_blocks = []
ScanStart(old) == <<>>

\* _extract_zlib_blocks() on a reader whose list was `old`
ExtractZlibBlocks(d, old) == ScanFrom(d, 0, ScanStart(old))

-----------------------------------------------------------------------------
(* Input buffers of the scanner: up to MaxChunks chunks of the library.    *)

MaxChunks == 3

\* b"ABCDEFGHIJ"
Orig10 == <<65, 66, 67, 68, 69, 70, 71, 72, 73, 74>>
\* b"abc"
Orig3 == <<97, 98, 99>>

Chunk(c) ==
    CASE c = 1 -> <<0>>
      [] c = 2 -> <<120>>
      [] c = 3 -> <<156, 7>>                       \* after 0x78: signature, invalid block type
      [] c = 4 -> <<120, 1, 0, 64, 0, 191, 255>>   \* stored block header announcing 64 bytes
      [] c = 5 -> Compress(Orig10)
      [] c = 6 -> Compress(Orig3)
      [] c = 7 -> Compress(Compress(Orig10))
      [] c = 8 -> SubSeq(Compress(Orig10), 1, 20)  \* last trailer byte missing
      [] c = 9 -> <<120, 156>>                     \* a signature and nothing behind it

ChunkIds == 1..9

\* chunks that are the output of the compressor
CompressedIds == {5, 6, 7}

ChunkOrig(c) ==
    CASE c = 5 -> Orig10
      [] c = 6 -> Orig3
      [] c = 7 -> Compress(Orig10)

RECURSIVE SeqsUpTo(_, _)
SeqsUpTo(S, n) ==
    IF n = 0 THEN {<<>>}
    ELSE LET prev == SeqsUpTo(S, n - 1)
         IN  prev \cup {Append(s, x) : s \in prev, x \in S}

BufferOf(ps) == Concat([k \in 1..Len(ps) |-> Chunk(ps[k])])

-----------------------------------------------------------------------------
(* The scanner, one loop iteration per step.                               *)

NoIteration == [pos |-> -1, outcome |-> "none", nblocks |-> 0]

\* which branch of the loop body position k takes
Outcome(d, k) ==
    LET r == Inflate(From(d, k))
    IN  IF ~IsSignature(d, k) THEN "nosig"
        ELSE IF ~r.ok THEN "raised"
        ELSE IF Len(r.out) < 10 THEN "short"
        ELSE "accepted"

ScanInit ==
    /\ mode = "scan"
    /\ parts \in SeqsUpTo(ChunkIds, MaxChunks)
    /\ data = BufferOf(parts)
    /\ i = 0
    /\ zlib_blocks = <<>>
    /\ strings = <<>>
    /\ pc = "loop"
    /\ last = NoIteration
    /\ disk = "none" /\ returned = <<>> /\ tags = <<>> /\ parsed = FALSE

ScanLoop ==
    /\ pc = "loop"
    /\ ScanGuard(data, i)
    /\ LET s == ScanStep(data, i, zlib_blocks)
       IN  /\ i' = s.i
           /\ zlib_blocks' = s.blocks
    /\ last' = [pos |-> i, outcome |-> Outcome(data, i), nblocks |-> Len(zlib_blocks)]
    /\ UNCHANGED <<mode, parts, data, strings, pc, disk, returned, tags, parsed>>

ScanExit ==
    /\ pc = "loop"
    /\ ~ScanGuard(data, i)
    /\ pc' = "done"
    /\ UNCHANGED <<mode, parts, data, i, zlib_blocks, strings, last, disk, returned, tags, parsed>>

ScanNext == ScanLoop \/ ScanExit

SpecScan == ScanInit /\ [][ScanNext]_vars

-----------------------------------------------------------------------------
(* Claims about the Segment Scanner.                                       *)

\* C1: the recorded segments are ordered by strictly increasing offset, no
\* two overlap (s.offset + s.comp_size <= t.offset for consecutive s, t),
\* and every segment ends inside the buffer.
C1_OrderedDisjoint ==
    mode = "scan" =>
      /\ \A k \in 1..Len(zlib_blocks) :
            zlib_blocks[k].offset + zlib_blocks[k].comp_size <= Len(data)
      /\ \A k \in 1..(Len(zlib_blocks) - 1) :
            /\ zlib_blocks[k].offset < zlib_blocks[k + 1].offset
            /\ zlib_blocks[k].offset + zlib_blocks[k].comp_size <= zlib_blocks[k + 1].offset

\* two segments were recorded, the first holding a complete stream inside
C1_Witness ==
    /\ mode = "scan" /\ pc = "done"
    /\ Len(zlib_blocks) >= 2
    /\ \E k \in 1..Len(parts) : parts[k] = 7

\* C2: after a rejected signature candidate at position p (decompression
\* raised, or gave fewer than 10 bytes) the cursor is exactly p + 1.
C2_RejectStepsOne ==
    (mode = "scan" /\ last.outcome \in {"raised", "short"}) => i = last.pos + 1

C2_Witness ==
    /\ mode = "scan"
    /\ last.outcome = "raised"
    /\ i = last.pos + 1
    /\ ScanGuard(data, i)

\* C3: every recorded segment has size >= 10 and size = len(data), and an
\* iteration whose decompression gave fewer than 10 bytes recorded nothing.
C3_MinPayload ==
    mode = "scan" =>
      /\ \A k \in 1..Len(zlib_blocks) :
            /\ zlib_blocks[k].size >= 10
            /\ zlib_blocks[k].size = Len(zlib_blocks[k].data)
      /\ last.outcome = "short" => Len(zlib_blocks) = last.nblocks

C3_Witness ==
    /\ mode = "scan"
    /\ last.outcome = "short"
    /\ Len(zlib_blocks) = last.nblocks
    /\ Len(zlib_blocks) >= 1

\* the buffer is pre ++ Compress(orig) ++ post: exactly one chunk, the k-th,
\* is compressor output
OneBlockAt(k) ==
    /\ k \in 1..Len(parts)
    /\ parts[k] \in CompressedIds
    /\ \A j \in 1..Len(parts) : j # k => parts[j] \notin CompressedIds

PreLen(k) == Len(BufferOf(SubSeq(parts, 1, k - 1)))

\* C4 as stated: for pre ++ block ++ post the result is exactly one segment,
\* at the insertion point, whose payload is the original.
C4_Original ==
    (mode = "scan" /\ pc = "done") =>
      \A k \in 1..Len(parts) :
        OneBlockAt(k) =>
          /\ Len(zlib_blocks) = 1
          /\ zlib_blocks[1].offset = PreLen(k)
          /\ zlib_blocks[1].data = ChunkOrig(parts[k])

\* C4 amended: the same, provided the original has at least 10 bytes and no
\* position of the surrounding bytes is itself accepted by the scanner.
C4_Recovery ==
    (mode = "scan" /\ pc = "done") =>
      \A k \in 1..Len(parts) :
        ( /\ OneBlockAt(k)
          /\ Len(ChunkOrig(parts[k])) >= 10
          /\ \A q \in 0..(Len(data) - 1) :
                (q < PreLen(k) \/ q >= PreLen(k) + Len(Chunk(parts[k])))
                  => ~AcceptedAt(data, q) )
        => /\ Len(zlib_blocks) = 1
           /\ zlib_blocks[1].offset = PreLen(k)
           /\ zlib_blocks[1].comp_size = Len(Chunk(parts[k]))
           /\ zlib_blocks[1].data = ChunkOrig(parts[k])
           /\ zlib_blocks[1].size = Len(ChunkOrig(parts[k]))

\* a block between a rejected candidate and trailing bytes was recovered
C4_Witness ==
    /\ mode = "scan" /\ pc = "done"
    /\ parts = <<2, 3, 5>> \/ parts = <<1, 5, 1>>
    /\ OneBlockAt(2)
    /\ zlib_blocks = <<[offset |-> PreLen(2), comp_size |-> 21, data |-> Orig10, size |-> 10]>>

-----------------------------------------------------------------------------
(* bytes.decode("utf-8") and str.isprintable().  Decoding is modelled for  *)
(* one- and two-byte sequences; the byte alphabets of the model hold no    *)
(* lead byte above 0xDF.  isprintable is the table for code points below   *)
(* U+0800.                                                                 *)

IsContinuation(b) == 128 <= b /\ b <= 191

\* a lead byte at index k (1-based) with its continuation byte behind it
IsPair(bs, k) ==
    194 <= bs[k] /\ bs[k] <= 223 /\ k < Len(bs) /\ IsContinuation(bs[k + 1])

\* the second byte of a pair
IsSecond(bs, k) == k > 1 /\ IsContinuation(bs[k]) /\ IsPair(bs, k - 1)

\* the code point decoded at index k, U+FFFD for a byte that decodes to none
CodePointAt(bs, k) ==
    IF bs[k] < 128 THEN bs[k]
    ELSE IF IsPair(bs, k) THEN (bs[k] - 192) * 64 + (bs[k + 1] - 128)
    ELSE 65533

\* the code points of the bytes, one for each index that does not continue
\* the pair before it
CodePoints(bs) ==
    LET starts == SelectSeq([k \in 1..Len(bs) |-> k], LAMBDA k : ~IsSecond(bs, k))
    IN  [j \in 1..Len(starts) |-> CodePointAt(bs, starts[j])]

\* strict decoding: the code points, or ok = FALSE (UnicodeDecodeError)
Utf8Decode(bs) ==
    IF \A k \in 1..Len(bs) : bs[k] < 128 \/ IsPair(bs, k) \/ IsSecond(bs, k)
    THEN [ok |-> TRUE, chars |-> CodePoints(bs)]
    ELSE [ok |-> FALSE, chars |-> <<>>]

CharPrintable(c) ==
    ~ \/ c <= 31 \/ (127 <= c /\ c <= 160) \/ c = 173
      \/ c \in {888, 889, 907, 909, 930, 1328, 1367, 1368, 1419, 1420, 1424,
                1564, 1757, 1806, 1807, 1867, 1868, 2043, 2044}
      \/ (896 <= c /\ c <= 899) \/ (1480 <= c /\ c <= 1487)
      \/ (1515 <= c /\ c <= 1518) \/ (1525 <= c /\ c <= 1541)
      \/ (1970 <= c /\ c <= 1983)

IsPrintable(cs) == \A k \in 1..Len(cs) : CharPrintable(cs[k])

-----------------------------------------------------------------------------
(* TiaProjectReader._extract_length_prefixed_strings                        *)

\* while i < len(data) - 1
StrGuard(d, k) == k < Len(d) - 1

\* 2 <= length <= 200 and i + 1 + length <= len(data)
LengthOk(d, k) ==
    LET length == At(d, k)
    IN  2 <= length /\ length <= 200 /\ k + 1 + length <= Len(d)

\* the decoded token at k; ok = FALSE when decode raised
TokenAt(d, k) == Utf8Decode(Slice(d, k + 1, k + 1 + At(d, k)))

\* s.isprintable() and len(s) >= 2
TokenOk(t) == t.ok /\ IsPrintable(t.chars) /\ Len(t.chars) >= 2

\* the jump lands on the last byte of the token instead of behind it
StrAcceptAdvance_short(k, length) == k + length

\* i += 1 + length
StrAcceptAdvance(k, length) == k + 1 + length

\* i += 1
StrRejectAdvance(k) == k + 1

\* one iteration of the while loop
StrStep(d, k, strs) ==
    IF LengthOk(d, k) /\ TokenOk(TokenAt(d, k))
    THEN [i |-> StrAcceptAdvance(k, At(d, k)), strings |-> Append(strs, TokenAt(d, k).chars)]
    ELSE [i |-> StrRejectAdvance(k), strings |-> strs]

\* which way position k goes, and why
StrOutcome(d, k) ==
    LET length == At(d, k)
    IN  IF length < 2 \/ length > 200 THEN "badlength"
        ELSE IF k + 1 + length > Len(d) THEN "outofbounds"
        ELSE IF ~TokenAt(d, k).ok THEN "undecodable"
        ELSE IF ~IsPrintable(TokenAt(d, k).chars) THEN "unprintable"
        ELSE IF Len(TokenAt(d, k).chars) < 2 THEN "onechar"
        ELSE "accepted"

\* a position the loop accepts when its cursor gets there
TokenAcceptedAt(d, k) == StrGuard(d, k) /\ LengthOk(d, k) /\ TokenOk(TokenAt(d, k))

\* the loop from cursor k on.  Rejected positions move the cursor by one, so
\* the next token is taken at the first accepted position at or behind k.
RECURSIVE ExtractStringsFrom(_, _, _)
ExtractStringsFrom(d, k, strs) ==
    LET a == FirstWhere(k, Len(d) - 2, LAMBDA p : TokenAcceptedAt(d, p))
    IN  IF a = -1 THEN strs
        ELSE LET s == StrStep(d, a, strs)
             IN  ExtractStringsFrom(d, s.i, s.strings)

\* the whole call
ExtractLengthPrefixedStrings(d) == ExtractStringsFrom(d, 0, <<>>)

-----------------------------------------------------------------------------
(* The string extractor, one loop iteration per step, on every byte string *)
(* of up to MaxStrBytes bytes over StrAlphabet.                            *)

MaxStrBytes == 5

\* 2, 3: lengths and control characters; 0 and 201: lengths out of range;
\* "A"; 0xC3 0xA9: the two bytes of one character
StrAlphabet == {0, 2, 3, 65, 195, 169, 201}

StrInit ==
    /\ mode = "str"
    /\ parts = <<>>
    /\ data \in SeqsUpTo(StrAlphabet, MaxStrBytes)
    /\ i = 0
    /\ zlib_blocks = <<>>
    /\ strings = <<>>
    /\ pc = "loop"
    /\ last = NoIteration
    /\ disk = "none" /\ returned = <<>> /\ tags = <<>> /\ parsed = FALSE

StrLoop ==
    /\ pc = "loop"
    /\ StrGuard(data, i)
    /\ LET s == StrStep(data, i, strings)
       IN  /\ i' = s.i
           /\ strings' = s.strings
    /\ last' = [pos |-> i, outcome |-> StrOutcome(data, i), nblocks |-> Len(strings)]
    /\ UNCHANGED <<mode, parts, data, zlib_blocks, pc, disk, returned, tags, parsed>>

StrExit ==
    /\ pc = "loop"
    /\ ~StrGuard(data, i)
    /\ pc' = "done"
    /\ UNCHANGED <<mode, parts, data, i, zlib_blocks, strings, last, disk, returned, tags, parsed>>

StrNext == StrLoop \/ StrExit

SpecStr == StrInit /\ [][StrNext]_vars

\* C5: every step of the string extractor moves the cursor forward: by
\* exactly 1 + L when a token with length byte L was accepted (and the token
\* was appended), by exactly 1 when the position was rejected.
C5_CursorProgress ==
    (mode = "str" /\ last.outcome # "none") =>
      /\ i > last.pos
      /\ last.outcome = "accepted" =>
            /\ i = last.pos + 1 + At(data, last.pos)
            /\ Len(strings) = last.nblocks + 1
      /\ last.outcome # "accepted" =>
            /\ i = last.pos + 1
            /\ Len(strings) = last.nblocks

\* a token was accepted after an earlier one, behind a rejected position
C5_Witness ==
    /\ mode = "str"
    /\ last.outcome = "accepted"
    /\ last.pos > 0
    /\ i = last.pos + 1 + At(data, last.pos)
    /\ Len(strings) = 1

-----------------------------------------------------------------------------
(* Text matching: the pieces the regular expressions of the extractors are  *)
(* made of.  A text is a sequence of code points (or bytes), positions are  *)
(* 0-based, and -1 stands for "no match".                                   *)

\* \d on str patterns, for code points below U+0800
DIGITS == (48..57) \cup (1632..1641) \cup (1776..1785) \cup (1984..1993)

\* \d on bytes patterns
BYTE_DIGITS == 48..57

\* the value int() gives a decimal digit
DigitValue(c) ==
    IF c <= 57 THEN c - 48
    ELSE IF c <= 1641 THEN c - 1632
    ELSE IF c <= 1785 THEN c - 1776
    ELSE c - 1984

\* \s on str patterns, for code points below U+0100
WHITESPACE == {9, 10, 11, 12, 13, 28, 29, 30, 31, 32, 133, 160}

QUOTE == 34
SLASH == 47
GT == 62

\* text[k:].startswith(lit)
LitAt(t, k, lit) ==
    /\ k >= 0
    /\ k + Len(lit) <= Len(t)
    /\ \A j \in 1..Len(lit) : t[k + j] = lit[j]

\* pat in data
Contains(d, pat) == \E k \in 0..(Len(d) - Len(pat)) : LitAt(d, k, pat)

\* the end of the longest run from k of characters for which In holds
SpanEnd(t, k, In(_)) ==
    CHOOSE e \in k..Len(t) :
      /\ e = Len(t) \/ ~In(t[e + 1])
      /\ \A m \in (k + 1)..e : In(t[m])

DigitsEnd(t, k) == SpanEnd(t, k, LAMBDA c : c \in DIGITS)
SpaceEnd(t, k) == SpanEnd(t, k, LAMBDA c : c \in WHITESPACE)
\* [^"]*
NotQuoteEnd(t, k) == SpanEnd(t, k, LAMBDA c : c # QUOTE)
\* [^/]*
NotSlashEnd(t, k) == SpanEnd(t, k, LAMBDA c : c # SLASH)
\* [^>]*
NotGtEnd(t, k) == SpanEnd(t, k, LAMBDA c : c # GT)

\* int(digits)
RECURSIVE ParseInt(_)
ParseInt(ds) ==
    IF ds = <<>> THEN 0
    ELSE 10 * ParseInt(SubSeq(ds, 1, Len(ds) - 1)) + DigitValue(ds[Len(ds)])

\* attr="([^"]+)" after the opening literal `open` at k: the value and the
\* position behind the closing quote, or end = -1
QuotedAt(t, k, open) ==
    LET a == k + Len(open)
        e == NotQuoteEnd(t, a)
    IN  IF LitAt(t, k, open) /\ e > a /\ e < Len(t)
        THEN [end |-> e + 1, val |-> Slice(t, a, e)]
        ELSE [end |-> -1, val |-> <<>>]

\* attr="(\d+)" likewise
QuotedDigitsAt(t, k, open) ==
    LET a == k + Len(open)
        e == DigitsEnd(t, a)
    IN  IF LitAt(t, k, open) /\ e > a /\ e < Len(t) /\ t[e + 1] = QUOTE
        THEN [end |-> e + 1, val |-> Slice(t, a, e)]
        ELSE [end |-> -1, val |-> <<>>]

-----------------------------------------------------------------------------
(* bytes.decode("utf-8", errors="replace"): a byte that cannot be decoded   *)
(* becomes U+FFFD.  Pure ASCII decodes to itself.                           *)

Utf8DecodeReplace(bs) ==
    IF \A k \in 1..Len(bs) : bs[k] < 128 THEN bs ELSE CodePoints(bs)

-----------------------------------------------------------------------------
(* TiaProjectReader._parse_block_interfaces                                 *)

PAGE_SIZE == 4096

\* b'<Root RIdSlots'
LIT_ROOT == <<60, 82, 111, 111, 116, 32, 82, 73, 100, 83, 108, 111, 116, 115>>

\* b'<Member ID="'
LIT_MEMBER_ID == <<60, 77, 101, 109, 98, 101, 114, 32, 73, 68, 61, 34>>

\* b'" Name="'
LIT_NAME == <<34, 32, 78, 97, 109, 101, 61, 34>>

\* b'" RID="'
LIT_RID == <<34, 32, 82, 73, 68, 61, 34>>

\* b'StdO="'
LIT_STDO == <<83, 116, 100, 79, 61, 34>>

\* b'LID="'
LIT_LID == <<76, 73, 68, 61, 34>>

\* b'F_PROG_DAT'
LIT_F_PROG_DAT == <<70, 95, 80, 82, 79, 71, 95, 68, 65, 84>>

\* b'F_RTG_DAT'
LIT_F_RTG_DAT == <<70, 95, 82, 84, 71, 95, 68, 65, 84>>

\* b'ChannelInfo'
LIT_CHANNELINFO == <<67, 104, 97, 110, 110, 101, 108, 73, 110, 102, 111>>

\* b'_dnVKE_'
LIT_DNVKE == <<95, 100, 110, 86, 75, 69, 95>>

\* b'_lnCACHE'
LIT_LNCACHE == <<95, 108, 110, 67, 65, 67, 72, 69>>

\* b'IdentXmlPart'
LIT_IDENTXMLPART == <<73, 100, 101, 110, 116, 88, 109, 108, 80, 97, 114, 116>>

NoMatch == [end |-> -1]

NoAttr == [end |-> -1, val |-> <<>>]

\* (?:\s+[^/]*)?\s*LID="(\d+)" at q.  With the optional group taken, the
\* greedy [^/]* gives back characters until LID="digits" follows: the match
\* is the last LID="digits" before the first "/" behind q.
LidTailAt(t, q) ==
    Let(IF q < Len(t) /\ t[q + 1] \in WHITESPACE
        THEN LastWhere(q + 1, NotSlashEnd(t, q) - 1,
                       LAMBDA k : QuotedDigitsAt(t, k, LIT_LID).end # -1)
        ELSE -1,
        LAMBDA r : QuotedDigitsAt(t, IF r # -1 THEN r ELSE q, LIT_LID))

\* the member pattern of lines 500-502 anchored at k
MemberMatchAt(t, k) ==
    IF ~LitAt(t, k, LIT_MEMBER_ID) THEN NoMatch ELSE
    Let(QuotedDigitsAt(t, k, LIT_MEMBER_ID), LAMBDA id :
    \* the closing quote of ID is the first character of `" Name="`
    Let(QuotedAt(t, id.end - 1, LIT_NAME), LAMBDA name :
    Let(QuotedAt(t, name.end - 1, LIT_RID), LAMBDA rid :
    Let(SpaceEnd(t, rid.end), LAMBDA w :
    Let(IF w > rid.end THEN QuotedDigitsAt(t, w, LIT_STDO) ELSE NoAttr, LAMBDA stdo :
    Let(IF stdo.end # -1 THEN LidTailAt(t, stdo.end) ELSE NoAttr, LAMBDA with :
    Let(LidTailAt(t, rid.end), LAMBDA without :
        IF id.end = -1 THEN NoMatch
        ELSE IF name.end = -1 THEN NoMatch
        ELSE IF rid.end = -1 THEN NoMatch
        ELSE IF with.end # -1
          THEN [end |-> with.end, id |-> id.val, name |-> name.val, rid |-> rid.val,
                stdo |-> stdo.val, lid |-> with.val]
        ELSE IF without.end # -1
          THEN [end |-> without.end, id |-> id.val, name |-> name.val, rid |-> rid.val,
                stdo |-> <<>>, lid |-> without.val]
        ELSE NoMatch)))))))

\* BlockInterface(...) of lines 505-511
BlockInterface(m) ==
    [member_id |-> ParseInt(m.id), name |-> m.name, rid |-> m.rid,
     offset |-> IF m.stdo # <<>> THEN ParseInt(m.stdo) ELSE -1,
     lid |-> ParseInt(m.lid), flags |-> 0]

\* re.finditer over text from position `from`: the members in order
RECURSIVE MembersFrom(_, _)
MembersFrom(t, from) ==
    Let(FirstWhere(from, Len(t) - 1,
                   LAMBDA p : LitAt(t, p, LIT_MEMBER_ID) /\ MemberMatchAt(t, p).end # -1),
        LAMBDA k :
          IF k = -1 THEN <<>>
          ELSE Let(MemberMatchAt(t, k),
                   LAMBDA m : <<BlockInterface(m)>> \o MembersFrom(t, m.end)))

\* b'Unknown'
LIT_UNKNOWN == <<85, 110, 107, 110, 111, 119, 110>>

\* b'SafeSys (F-System DB)'
LIT_SAFESYS == <<83, 97, 102, 101, 83, 121, 115, 32, 40, 70, 45, 83, 121, 115, 116, 101, 109, 32, 68, 66, 41>>

\* b'DiagnosticAlarm (OB82)'
LIT_DIAG == <<68, 105, 97, 103, 110, 111, 115, 116, 105, 99, 65, 108, 97, 114, 109, 32, 40, 79, 66, 56, 50, 41>>

\* b'F_CTRL (Safety FB)'
LIT_FCTRL == <<70, 95, 67, 84, 82, 76, 32, 40, 83, 97, 102, 101, 116, 121, 32, 70, 66, 41>>

\* b'Main (OB1)'
LIT_MAIN == <<77, 97, 105, 110, 32, 40, 79, 66, 49, 41>>

\* b'FB'
LIT_FB == <<70, 66>>

\* b'F_'
LIT_F_ == <<70, 95>>

\* b'OB'
LIT_OB == <<79, 66>>

\* lines 515-523: the block name from the markers in the page
BlockName(d) ==
    IF Contains(d, LIT_F_PROG_DAT) \/ Contains(d, LIT_F_RTG_DAT) THEN LIT_SAFESYS
    ELSE IF Contains(d, LIT_CHANNELINFO) THEN LIT_DIAG
    ELSE IF Contains(d, LIT_DNVKE) \/ Contains(d, LIT_LNCACHE) THEN LIT_FCTRL
    ELSE IF Contains(d, LIT_IDENTXMLPART) THEN LIT_MAIN
    ELSE LIT_UNKNOWN

\* line 527
BlockType(name) ==
    IF Contains(name, LIT_FB) \/ Contains(name, LIT_F_) THEN LIT_FB ELSE LIT_OB

\* the page filter of lines 490-494
IsInterfacePage(blk) == blk.size = PAGE_SIZE /\ Contains(blk.data, LIT_ROOT)

\* the ProgramBlocks one segment contributes (none or one)
BlocksOfSegment(blk) ==
    IF ~IsInterfacePage(blk) THEN <<>>
    ELSE Let(MembersFrom(Utf8DecodeReplace(blk.data), 0), LAMBDA members :
         Let(BlockName(blk.data), LAMBDA block_name :
             IF members # <<>>
             THEN <<[name |-> block_name, block_type |-> BlockType(block_name),
                     members |-> members]>>
             ELSE <<>>))

\* _parse_block_interfaces(info): info.blocks after the loop over segments
RECURSIVE ParseBlockInterfaces(_, _)
ParseBlockInterfaces(segs, blocks) ==
    IF segs = <<>> THEN blocks
    ELSE ParseBlockInterfaces(Tail(segs), blocks \o BlocksOfSegment(Head(segs)))

-----------------------------------------------------------------------------
(* TiaProjectReader._parse_cpu_attributes and its helpers                   *)

\* b'Attribute Name="FwVersion"'
LIT_ATTR_FW == <<65, 116, 116, 114, 105, 98, 117, 116, 101, 32, 78, 97, 109, 101, 61, 34, 70, 119, 86, 101, 114, 115, 105, 111, 110, 34>>

\* b'Name="Subtype"'
LIT_NAME_SUBTYPE == <<78, 97, 109, 101, 61, 34, 83, 117, 98, 116, 121, 112, 101, 34>>

\* b'<Attribute Name="'
LIT_ATTR_OPEN == <<60, 65, 116, 116, 114, 105, 98, 117, 116, 101, 32, 78, 97, 109, 101, 61, 34>>

\* b'" Type="'
LIT_TYPE == <<34, 32, 84, 121, 112, 101, 61, 34>>

\* b'" Value="'
LIT_VALUE == <<34, 32, 86, 97, 108, 117, 101, 61, 34>>

\* b'FwVersion'
ATTR_FW == <<70, 119, 86, 101, 114, 115, 105, 111, 110>>

\* b'Subtype'
ATTR_SUBTYPE == <<83, 117, 98, 116, 121, 112, 101>>

\* b'Description'
ATTR_DESC == <<68, 101, 115, 99, 114, 105, 112, 116, 105, 111, 110>>

\* b'IecplMaxNumberOfBlocks'
ATTR_MAXBLOCKS == <<73, 101, 99, 112, 108, 77, 97, 120, 78, 117, 109, 98, 101, 114, 79, 102, 66, 108, 111, 99, 107, 115>>

\* b'IecplSupportedLanguages'
ATTR_LANGS == <<73, 101, 99, 112, 108, 83, 117, 112, 112, 111, 114, 116, 101, 100, 76, 97, 110, 103, 117, 97, 103, 101, 115>>

\* b'Siemens'
LIT_SIEMENS == <<83, 105, 101, 109, 101, 110, 115>>

\* b'6ES7'
LIT_6ES7 == <<54, 69, 83, 55>>

\* b'CPU '
LIT_CPU_ == <<67, 80, 85, 32>>

\* b'6ES7 '
LIT_6ES7_ == <<54, 69, 83, 55, 32>>

\* b'CPU'
LIT_CPU == <<67, 80, 85>>

\* b'Unknown CPU'
LIT_UNKNOWN_CPU == <<85, 110, 107, 110, 111, 119, 110, 32, 67, 80, 85>>

\* b'LAD'
LIT_LAD == <<76, 65, 68>>

\* b'FBD'
LIT_FBD == <<70, 66, 68>>

\* b'STL'
LIT_STL == <<83, 84, 76>>

\* b'SCL'
LIT_SCL == <<83, 67, 76>>

\* b'CFC'
LIT_CFC == <<67, 70, 67>>

\* b'GRAPH'
LIT_GRAPH == <<71, 82, 65, 80, 72>>

\* the pattern of line 454 anchored at k: the position behind the match and
\* the Value, or end = -1
AttrMatchAt(t, k, attr) ==
    LET open == LIT_ATTR_OPEN \o attr \o LIT_TYPE
        e    == NotQuoteEnd(t, k + Len(open))
        b    == e + Len(LIT_VALUE)
        e2   == NotQuoteEnd(t, b)
    IN  IF LitAt(t, k, open) /\ LitAt(t, e, LIT_VALUE) /\ e2 < Len(t)
        THEN [end |-> e2 + 1, val |-> Slice(t, b, e2)]
        ELSE [end |-> -1, val |-> <<>>]

\* the Value of the first match where an attribute is searched from `from`
ExtractAttrFrom(t, attr, from) ==
    Let(FirstWhere(from, Len(t) - 1,
                   LAMBDA p : LitAt(t, p, LIT_ATTR_OPEN) /\ AttrMatchAt(t, p, attr).end # -1),
        LAMBDA k : IF k = -1 THEN <<>> ELSE AttrMatchAt(t, k, attr).val)

\* _extract_attr(text, attr_name)
ExtractAttr(t, attr) == ExtractAttrFrom(t, attr, 0)

\* str.strip()
Strip(s) ==
    LET a == SpaceEnd(s, 0)
        b == IF a = Len(s) THEN a
             ELSE CHOOSE e \in (a + 1)..Len(s) :
                    /\ s[e] \notin WHITESPACE
                    /\ \A m \in (e + 1)..Len(s) : s[m] \in WHITESPACE
    IN  Slice(s, a, b)

\* str.split(sep) for a one-character separator
RECURSIVE Split(_, _)
Split(s, sep) ==
    LET k == FirstWhere(0, Len(s) - 1, LAMBDA p : s[p + 1] = sep)
    IN  IF k = -1 THEN <<s>>
        ELSE <<Slice(s, 0, k)>> \o Split(From(s, k + 1), sep)

\* lang_map.get(c.strip(), f"?{c}")
LanguageName(c) ==
    LET code == Strip(c)
    IN  CASE code = <<49>> -> LIT_LAD
          [] code = <<50>> -> LIT_FBD
          [] code = <<51>> -> LIT_STL
          [] code = <<52>> -> LIT_SCL
          [] code = <<53>> -> LIT_CFC
          [] code = <<54>> -> LIT_GRAPH
          [] OTHER -> <<63>> \o c

\* ", ".join(...) over the codes whose strip() is not empty
RECURSIVE JoinLanguages(_)
JoinLanguages(codes) ==
    IF codes = <<>> THEN <<>>
    ELSE IF Strip(Head(codes)) = <<>> THEN JoinLanguages(Tail(codes))
    ELSE LET rest == JoinLanguages(Tail(codes))
         IN  IF rest = <<>> THEN LanguageName(Head(codes))
             ELSE LanguageName(Head(codes)) \o <<44, 32>> \o rest

\* _decode_languages(lang_str)
DecodeLanguages(s) == IF s = <<>> THEN <<>> ELSE JoinLanguages(Split(s, 59))

\* int(s) on a str: surrounding whitespace, a sign, and digits that may be
\* grouped by single underscores; anything else raises ValueError
IntLiteral(s) ==
    Let(Strip(s), LAMBDA body0 :
    Let(body0 # <<>> /\ body0[1] \in {43, 45}, LAMBDA signed :
    Let(IF signed THEN Tail(body0) ELSE body0, LAMBDA body :
    Let(ParseInt(SelectSeq(body, LAMBDA c : c # 95)), LAMBDA val :
        IF /\ body # <<>>
           /\ \A k \in 1..Len(body) : body[k] \in DIGITS \/ body[k] = 95
           /\ body[1] # 95 /\ body[Len(body)] # 95
           /\ \A k \in 1..(Len(body) - 1) : ~(body[k] = 95 /\ body[k + 1] = 95)
        THEN [ok |-> TRUE, val |-> IF signed /\ body0[1] = 45 THEN 0 - val ELSE val]
        ELSE [ok |-> FALSE, val |-> 0]))))

\* re.match(r"CPU \d{4}", s)
IsCpuName(s) ==
    /\ LitAt(s, 0, LIT_CPU_)
    /\ Len(s) >= 8
    /\ \A k \in 5..8 : s[k] \in DIGITS

\* re.match(r"6ES7 \d{3}", s)
IsCpuOrder(s) ==
    /\ LitAt(s, 0, LIT_6ES7_)
    /\ Len(s) >= 8
    /\ \A k \in 6..8 : s[k] \in DIGITS

\* lines 422-427: the inner loop over the tokens of one catalog page
RECURSIVE CpuNamesInTokens(_, _, _)
CpuNamesInTokens(strs, cpu_name, cpu_order) ==
    IF strs = <<>> THEN [cpu_name |-> cpu_name, cpu_order |-> cpu_order]
    ELSE CpuNamesInTokens(Tail(strs),
           IF IsCpuName(Head(strs)) /\ cpu_name = <<>> THEN Head(strs) ELSE cpu_name,
           IF IsCpuOrder(Head(strs)) /\ cpu_order = <<>> THEN Head(strs) ELSE cpu_order)

\* lines 415-429: the secondary search over all segments
RECURSIVE CpuNameSearch(_, _, _)
CpuNameSearch(segs, cpu_name, cpu_order) ==
    IF segs = <<>> THEN [cpu_name |-> cpu_name, cpu_order |-> cpu_order]
    ELSE Let(Head(segs).data, LAMBDA d2 :
         Let(Head(segs).size # PAGE_SIZE \/ ~Contains(d2, LIT_SIEMENS) \/ ~Contains(d2, LIT_6ES7),
             LAMBDA skipped :
         Let(IF skipped THEN [cpu_name |-> cpu_name, cpu_order |-> cpu_order]
             ELSE CpuNamesInTokens(ExtractLengthPrefixedStrings(d2), cpu_name, cpu_order),
             LAMBDA found :
               IF ~skipped /\ found.cpu_name # <<>> /\ found.cpu_order # <<>> THEN found
               ELSE CpuNameSearch(Tail(segs), found.cpu_name, found.cpu_order))))

\* the device list is not consulted
CpuFromDevices_none(devices) == [cpu_name |-> <<>>, cpu_order |-> <<>>]

\* lines 432-437: the first device that has an order number and "CPU" in its name
CpuFromDevices(devices) ==
    Let(FirstWhere(1, Len(devices),
                   LAMBDA p : devices[p].order_number # <<>> /\ Contains(devices[p].name, LIT_CPU)),
        LAMBDA k : IF k = -1 THEN [cpu_name |-> <<>>, cpu_order |-> <<>>]
                   ELSE [cpu_name |-> devices[k].name, cpu_order |-> devices[k].order_number])

\* the page filter without the size test
IsCpuPage_anysize(blk) ==
    Contains(blk.data, LIT_ATTR_FW) \/ Contains(blk.data, LIT_NAME_SUBTYPE)

\* the page filter of lines 395-399
IsCpuPage(blk) ==
    /\ blk.size = PAGE_SIZE
    /\ Contains(blk.data, LIT_ATTR_FW) \/ Contains(blk.data, LIT_NAME_SUBTYPE)

NoCpu == [present |-> FALSE]

\* lines 400-447 for one qualifying page: [found, raised, cpu]
CpuOfPage(blk, segs, devices) ==
    Let(Utf8DecodeReplace(blk.data), LAMBDA text :
    Let(ExtractAttr(text, ATTR_FW), LAMBDA fw_ver :
    Let(ExtractAttr(text, ATTR_SUBTYPE), LAMBDA subtype :
    Let(ExtractAttr(text, ATTR_MAXBLOCKS), LAMBDA max_blocks :
    Let(IntLiteral(max_blocks), LAMBDA int :
    Let(CpuNameSearch(segs, <<>>, <<>>), LAMBDA searched :
    Let(CpuFromDevices(devices), LAMBDA dev :
    Let(IF searched.cpu_name = <<>> /\ dev.cpu_name # <<>> THEN dev ELSE searched, LAMBDA named :
        IF fw_ver = <<>> /\ subtype = <<>> THEN [found |-> FALSE, raised |-> FALSE, cpu |-> NoCpu]
        ELSE IF max_blocks # <<>> /\ ~int.ok
          THEN [found |-> TRUE, raised |-> TRUE, cpu |-> NoCpu]
        ELSE [found |-> TRUE, raised |-> FALSE,
              cpu |-> [present |-> TRUE,
                       name |-> IF named.cpu_name # <<>> THEN named.cpu_name ELSE LIT_UNKNOWN_CPU,
                       order_number |-> named.cpu_order,
                       firmware_version |-> fw_ver,
                       subtype |-> subtype,
                       description |-> Slice(ExtractAttr(text, ATTR_DESC), 0, 200),
                       max_blocks |-> IF max_blocks # <<>> THEN int.val ELSE 0,
                       supported_languages |->
                         DecodeLanguages(ExtractAttr(text, ATTR_LANGS))]]))))))))

\* the loop without the break of line 448: the last page that yields a CPU
RECURSIVE ParseCpuAttributes_last(_, _, _)
ParseCpuAttributes_last(rest, segs, devices) ==
    IF rest = <<>> THEN [raised |-> FALSE, cpu |-> NoCpu]
    ELSE Let(ParseCpuAttributes_last(Tail(rest), segs, devices), LAMBDA later :
             IF later.cpu.present \/ ~IsCpuPage(Head(rest)) THEN later
             ELSE Let(CpuOfPage(Head(rest), segs, devices), LAMBDA c :
                      IF c.found THEN [raised |-> c.raised, cpu |-> c.cpu] ELSE later))

\* _parse_cpu_attributes(info) over the segments `rest` still to visit:
\* [raised, cpu]; the first page that yields a CPU ends the loop
RECURSIVE ParseCpuAttributes(_, _, _)
ParseCpuAttributes(rest, segs, devices) ==
    IF rest = <<>> THEN [raised |-> FALSE, cpu |-> NoCpu]
    ELSE IF ~IsCpuPage(Head(rest)) THEN ParseCpuAttributes(Tail(rest), segs, devices)
    ELSE Let(CpuOfPage(Head(rest), segs, devices), LAMBDA c :
             IF c.found THEN [raised |-> c.raised, cpu |-> c.cpu]
             ELSE ParseCpuAttributes(Tail(rest), segs, devices))

-----------------------------------------------------------------------------
(* TiaProjectReader._parse_devices and _parse_hardware_catalog              *)

\* b'S7PCentralStation'
LIT_S7PCENTRAL == <<83, 55, 80, 67, 101, 110, 116, 114, 97, 108, 83, 116, 97, 116, 105, 111, 110>>

\* b'Station'
LIT_STATION == <<83, 116, 97, 116, 105, 111, 110>>

\* b'Role'
LIT_ROLE == <<82, 111, 108, 101>>

\* b'Template'
LIT_TEMPLATE == <<84, 101, 109, 112, 108, 97, 116, 101>>

\* b'ObjectId'
LIT_OBJECTID == <<79, 98, 106, 101, 99, 116, 73, 100>>

\* b'6ES'
LIT_6ES == <<54, 69, 83>>

\* lines 288-291: the first token holding "Station" and "/", or <<>>
StationNameOf(strs) ==
    LET k == FirstWhere(1, Len(strs),
                        LAMBDA p : Contains(strs[p], LIT_STATION) /\ Contains(strs[p], <<SLASH>>))
    IN  IF k = -1 THEN <<>> ELSE strs[k]

\* strings[j + 1] of the last j in lo..hi-1 (0-based) with strings[j] = key
\* and j + 1 < len(strings); <<>> when there is none
LookAhead(strs, lo, hi, key) ==
    LET j == LastWhere(lo, hi - 1, LAMBDA p : strs[p + 1] = key /\ p + 1 < Len(strs))
    IN  IF j = -1 THEN <<>> ELSE strs[j + 2]

DeviceInfo(role, template, obj_id) ==
    [name |-> <<>>, role |-> role, template |-> template, object_id |-> obj_id,
     order_number |-> <<>>, manufacturer |-> <<>>, description |-> <<>>]

\* lines 295-317: the window loop from token index k (0-based)
RECURSIVE DeviceWindows(_, _, _)
DeviceWindows(strs, k, devices) ==
    IF ~(k < Len(strs) - 1) THEN devices
    ELSE IF strs[k + 1] = LIT_ROLE /\ k + 5 < Len(strs) THEN
      LET role     == strs[k + 2]
          hi       == Min(k + 8, Len(strs))
          template == LookAhead(strs, k + 2, hi, LIT_TEMPLATE)
          obj_id   == LookAhead(strs, k + 2, hi, LIT_OBJECTID)
      IN  DeviceWindows(strs, k + 6,
            IF role # <<>> /\ template # <<>>
            THEN Append(devices, DeviceInfo(role, template, obj_id))
            ELSE devices)
    ELSE DeviceWindows(strs, k + 1, devices)

\* re.match(r"6ES\d", order_num)
IsOrderNumber(s) == LitAt(s, 0, LIT_6ES) /\ Len(s) >= 4 /\ s[4] \in DIGITS

\* lines 347-360 at position p of the page: the catalog entry found there
CatalogEntryAt(d, p) ==
    LET j         == p + 7
        name_len  == At(d, j)
        k         == j + 1 + name_len
        order_len == At(d, k)
        order_num == Utf8DecodeReplace(Slice(d, k + 1, k + 1 + order_len))
    IN  IF /\ LitAt(d, p, LIT_SIEMENS)
           /\ j < Len(d)
           /\ 2 < name_len /\ name_len < 100 /\ j + 1 + name_len <= Len(d)
           /\ k < Len(d)
           /\ 5 < order_len /\ order_len < 50 /\ k + 1 + order_len <= Len(d)
           /\ IsOrderNumber(order_num)
        THEN [found |-> TRUE, name |-> Utf8DecodeReplace(Slice(d, j + 1, j + 1 + name_len)),
              order_num |-> order_num]
        ELSE [found |-> FALSE]

\* the first device is filled, whatever it holds
Backfill_first(devices, entry) ==
    IF devices = <<>> THEN devices
    ELSE [devices EXCEPT ![1] = [@ EXCEPT !.name = entry.name,
                                          !.order_number = entry.order_num,
                                          !.manufacturer = LIT_SIEMENS]]

\* lines 362-367: the first device with no order number and no name is filled
Backfill(devices, entry) ==
    LET k == FirstWhere(1, Len(devices),
                        LAMBDA p : devices[p].order_number = <<>> /\ devices[p].name = <<>>)
    IN  IF k = -1 THEN devices
        ELSE [devices EXCEPT ![k] = [@ EXCEPT !.name = entry.name,
                                               !.order_number = entry.order_num,
                                               !.manufacturer = LIT_SIEMENS]]

\* _parse_hardware_catalog(data, strings, info) from position `from` on
RECURSIVE ParseHardwareCatalog(_, _, _)
ParseHardwareCatalog(d, from, devices) ==
    Let(FirstWhere(from, Len(d) - 11,
                   LAMBDA q : LitAt(d, q, LIT_SIEMENS) /\ CatalogEntryAt(d, q).found),
        LAMBDA p :
          IF p = -1 THEN devices
          ELSE ParseHardwareCatalog(d, p + 1, Backfill(devices, CatalogEntryAt(d, p))))

\* the page filter of lines 275-281
IsDevicePage(blk) == blk.size = PAGE_SIZE /\ Contains(blk.data, LIT_S7PCENTRAL)

\* _parse_devices(info): [station_name, devices] after the loop over segments
RECURSIVE ParseDevices(_, _, _)
ParseDevices(segs, station_name, devices) ==
    IF segs = <<>> THEN [station_name |-> station_name, devices |-> devices]
    ELSE Let(ExtractLengthPrefixedStrings(Head(segs).data), LAMBDA strs :
         Let(StationNameOf(strs), LAMBDA station :
             IF ~IsDevicePage(Head(segs)) \/ strs = <<>>
             THEN ParseDevices(Tail(segs), station_name, devices)
             ELSE ParseDevices(Tail(segs),
                    IF station # <<>> THEN station ELSE station_name,
                    ParseHardwareCatalog(Head(segs).data, 0, DeviceWindows(strs, 0, devices)))))

-----------------------------------------------------------------------------
(* TiaProjectReader._parse_meta_packages, _parse_library_versions and       *)
(* _parse_timestamps                                                        *)

\* b'<MetaInfo'
LIT_METAINFO == <<60, 77, 101, 116, 97, 73, 110, 102, 111>>

\* b'Package name="'
LIT_PACKAGE == <<80, 97, 99, 107, 97, 103, 101, 32, 110, 97, 109, 101, 61, 34>>

\* b'<LibraryVersions'
LIT_LIBVERSIONS == <<60, 76, 105, 98, 114, 97, 114, 121, 86, 101, 114, 115, 105, 111, 110, 115>>

\* b'Library LibGuid="'
LIT_LIBGUID == <<76, 105, 98, 114, 97, 114, 121, 32, 76, 105, 98, 71, 117, 105, 100, 61, 34>>

\* b'" DisplayVersion="'
LIT_DISPLAYVERSION == <<34, 32, 68, 105, 115, 112, 108, 97, 121, 86, 101, 114, 115, 105, 111, 110, 61, 34>>

\* b'SwitchMinor="'
LIT_SWITCHMINOR == <<83, 119, 105, 116, 99, 104, 77, 105, 110, 111, 114, 61, 34>>

\* b'true'
LIT_TRUE == <<116, 114, 117, 101>>

\* re.findall(r'Package name="([^"]+)"', text) from position `from`
RECURSIVE PackagesFrom(_, _)
PackagesFrom(t, from) ==
    Let(FirstWhere(from, Len(t) - 1, LAMBDA p : QuotedAt(t, p, LIT_PACKAGE).end # -1),
        LAMBDA k :
          IF k = -1 THEN <<>>
          ELSE Let(QuotedAt(t, k, LIT_PACKAGE),
                   LAMBDA m : <<m.val>> \o PackagesFrom(t, m.end)))

\* the page filter of line 265
IsMetaPage(blk) == blk.size > 10000 /\ Contains(Slice(blk.data, 0, 200), LIT_METAINFO)

\* _parse_meta_packages(info)
RECURSIVE ParseMetaPackages(_, _)
ParseMetaPackages(segs, packages) ==
    IF segs = <<>> THEN packages
    ELSE ParseMetaPackages(Tail(segs),
           IF IsMetaPage(Head(segs))
           THEN packages \o PackagesFrom(Utf8DecodeReplace(Head(segs).data), 0)
           ELSE packages)

\* the pattern of lines 475-476 anchored at k
LibraryMatchAt(t, k) ==
    Let(QuotedAt(t, k, LIT_LIBGUID), LAMBDA guid :
    Let(QuotedAt(t, guid.end - 1, LIT_DISPLAYVERSION), LAMBDA ver :
    Let(SpaceEnd(t, ver.end), LAMBDA w :
    Let(w + Len(LIT_SWITCHMINOR), LAMBDA a :
    Let(NotQuoteEnd(t, a), LAMBDA e :
    Let(w > ver.end /\ LitAt(t, w, LIT_SWITCHMINOR) /\ e < Len(t), LAMBDA sw :
        IF guid.end = -1 THEN NoMatch
        ELSE IF ver.end = -1 THEN NoMatch
        ELSE [end |-> IF sw THEN e + 1 ELSE ver.end,
              lib |-> [guid |-> guid.val, display_version |-> ver.val,
                       switch_minor |-> sw /\ Slice(t, a, e) = LIT_TRUE]]))))))

RECURSIVE LibrariesFrom(_, _)
LibrariesFrom(t, from) ==
    Let(FirstWhere(from, Len(t) - 1, LAMBDA p : LibraryMatchAt(t, p).end # -1),
        LAMBDA k :
          IF k = -1 THEN <<>>
          ELSE Let(LibraryMatchAt(t, k),
                   LAMBDA m : <<m.lib>> \o LibrariesFrom(t, m.end)))

\* the page filter of line 472
IsLibraryPage(blk) == Contains(Slice(blk.data, 0, 100), LIT_LIBVERSIONS)

\* _parse_library_versions(info)
RECURSIVE ParseLibraryVersions(_, _)
ParseLibraryVersions(segs, libraries) ==
    IF segs = <<>> THEN libraries
    ELSE ParseLibraryVersions(Tail(segs),
           IF IsLibraryPage(Head(segs))
           THEN libraries \o LibrariesFrom(Utf8DecodeReplace(Head(segs).data), 0)
           ELSE libraries)

\* \d{1,2} followed by the byte `sep` at k: the position behind sep, or -1
OneOrTwoDigitsThen(d, k, sep) ==
    LET e == DigitsEnd(d, k)
    IN  IF k >= 0 /\ e - k \in {1, 2} /\ e < Len(d) /\ d[e + 1] = sep THEN e + 1 ELSE -1

\* \d{n} followed by the byte `sep` at k
DigitsThen(d, k, n, sep) ==
    IF /\ k >= 0 /\ k + n < Len(d)
       /\ \A j \in 1..n : d[k + j] \in BYTE_DIGITS
       /\ d[k + n + 1] = sep
    THEN k + n + 1 ELSE -1

\* the pattern of line 540 anchored at k: the position behind the match, or -1
TimestampEndAt(d, k) ==
    Let(DigitsThen(d,
          DigitsThen(d,
            OneOrTwoDigitsThen(d,
              DigitsThen(d,
                OneOrTwoDigitsThen(d,
                  OneOrTwoDigitsThen(d, k, SLASH),
                  SLASH),
                4, 32),
              58),
            2, 58),
          2, 32),
        LAMBDA p6 :
          IF p6 # -1 /\ p6 + 2 <= Len(d) /\ d[p6 + 1] \in {65, 80} /\ d[p6 + 2] = 77
          THEN p6 + 2 ELSE -1)

\* x in list
Member(x, xs) == \E k \in 1..Len(xs) : xs[k] = x

\* lines 540-543 from position `from` of one page
RECURSIVE TimestampsFrom(_, _, _)
TimestampsFrom(d, from, stamps) ==
    Let(FirstWhere(from, Len(d) - 1,
                   LAMBDA p : d[p + 1] \in BYTE_DIGITS /\ TimestampEndAt(d, p) # -1),
        LAMBDA k :
          IF k = -1 THEN stamps
          ELSE Let(TimestampEndAt(d, k), LAMBDA e :
               Let(Slice(d, k, e), LAMBDA ts :
                   TimestampsFrom(d, e, IF Member(ts, stamps) THEN stamps
                                        ELSE Append(stamps, ts)))))

\* the size test of line 536 left out
RECURSIVE ParseTimestamps_anysize(_, _)
ParseTimestamps_anysize(segs, stamps) ==
    IF segs = <<>> THEN stamps
    ELSE ParseTimestamps_anysize(Tail(segs), TimestampsFrom(Head(segs).data, 0, stamps))

\* _parse_timestamps(info)
RECURSIVE ParseTimestamps(_, _)
ParseTimestamps(segs, stamps) ==
    IF segs = <<>> THEN stamps
    ELSE ParseTimestamps(Tail(segs),
           IF Head(segs).size = PAGE_SIZE
           THEN TimestampsFrom(Head(segs).data, 0, stamps)
           ELSE stamps)

-----------------------------------------------------------------------------
(* tia_tag_export.py: RID_TYPE_MAP and TiaTagExporter                       *)

\* the static table, as (RID, type name) pairs
RID_TYPE_MAP == <<
    (* 0x02000001: Bool *) <<<<48, 120, 48, 50, 48, 48, 48, 48, 48, 49>>, <<66, 111, 111, 108>>>>,
    (* 0x02000002: Byte *) <<<<48, 120, 48, 50, 48, 48, 48, 48, 48, 50>>, <<66, 121, 116, 101>>>>,
    (* 0x02000003: Char *) <<<<48, 120, 48, 50, 48, 48, 48, 48, 48, 51>>, <<67, 104, 97, 114>>>>,
    (* 0x02000004: Int *) <<<<48, 120, 48, 50, 48, 48, 48, 48, 48, 52>>, <<73, 110, 116>>>>,
    (* 0x02000005: Word *) <<<<48, 120, 48, 50, 48, 48, 48, 48, 48, 53>>, <<87, 111, 114, 100>>>>,
    (* 0x02000006: DWord *) <<<<48, 120, 48, 50, 48, 48, 48, 48, 48, 54>>, <<68, 87, 111, 114, 100>>>>,
    (* 0x02000007: DInt *) <<<<48, 120, 48, 50, 48, 48, 48, 48, 48, 55>>, <<68, 73, 110, 116>>>>,
    (* 0x02000008: Real *) <<<<48, 120, 48, 50, 48, 48, 48, 48, 48, 56>>, <<82, 101, 97, 108>>>>,
    (* 0x02000009: Date *) <<<<48, 120, 48, 50, 48, 48, 48, 48, 48, 57>>, <<68, 97, 116, 101>>>>,
    (* 0x0200000a: Time_Of_Day *) <<<<48, 120, 48, 50, 48, 48, 48, 48, 48, 97>>, <<84, 105, 109, 101, 95, 79, 102, 95, 68, 97, 121>>>>,
    (* 0x0200000b: Time *) <<<<48, 120, 48, 50, 48, 48, 48, 48, 48, 98>>, <<84, 105, 109, 101>>>>,
    (* 0x0200000c: S5Time *) <<<<48, 120, 48, 50, 48, 48, 48, 48, 48, 99>>, <<83, 53, 84, 105, 109, 101>>>>,
    (* 0x02000010: Date_And_Time *) <<<<48, 120, 48, 50, 48, 48, 48, 48, 49, 48>>, <<68, 97, 116, 101, 95, 65, 110, 100, 95, 84, 105, 109, 101>>>>,
    (* 0x02000014: String *) <<<<48, 120, 48, 50, 48, 48, 48, 48, 49, 52>>, <<83, 116, 114, 105, 110, 103>>>>,
    (* 0x02000019: Pointer *) <<<<48, 120, 48, 50, 48, 48, 48, 48, 49, 57>>, <<80, 111, 105, 110, 116, 101, 114>>>>,
    (* 0x0200001a: Any *) <<<<48, 120, 48, 50, 48, 48, 48, 48, 49, 97>>, <<65, 110, 121>>>>,
    (* 0x02000030: LReal *) <<<<48, 120, 48, 50, 48, 48, 48, 48, 51, 48>>, <<76, 82, 101, 97, 108>>>>,
    (* 0x02000031: ULInt *) <<<<48, 120, 48, 50, 48, 48, 48, 48, 51, 49>>, <<85, 76, 73, 110, 116>>>>,
    (* 0x02000032: LInt *) <<<<48, 120, 48, 50, 48, 48, 48, 48, 51, 50>>, <<76, 73, 110, 116>>>>,
    (* 0x02000033: LWord *) <<<<48, 120, 48, 50, 48, 48, 48, 48, 51, 51>>, <<76, 87, 111, 114, 100>>>>,
    (* 0x02000034: USInt *) <<<<48, 120, 48, 50, 48, 48, 48, 48, 51, 52>>, <<85, 83, 73, 110, 116>>>>,
    (* 0x02000035: UInt *) <<<<48, 120, 48, 50, 48, 48, 48, 48, 51, 53>>, <<85, 73, 110, 116>>>>,
    (* 0x02000036: UDInt *) <<<<48, 120, 48, 50, 48, 48, 48, 48, 51, 54>>, <<85, 68, 73, 110, 116>>>>,
    (* 0x02000037: SInt *) <<<<48, 120, 48, 50, 48, 48, 48, 48, 51, 55>>, <<83, 73, 110, 116>>>>,
    (* 0x02000038: WChar *) <<<<48, 120, 48, 50, 48, 48, 48, 48, 51, 56>>, <<87, 67, 104, 97, 114>>>>,
    (* 0x02000039: WString *) <<<<48, 120, 48, 50, 48, 48, 48, 48, 51, 57>>, <<87, 83, 116, 114, 105, 110, 103>>>>,
    (* 0x0200003a: LTime *) <<<<48, 120, 48, 50, 48, 48, 48, 48, 51, 97>>, <<76, 84, 105, 109, 101>>>>,
    (* 0x02000040: LDT *) <<<<48, 120, 48, 50, 48, 48, 48, 48, 52, 48>>, <<76, 68, 84>>>>,
    (* 0x02000041: DTL *) <<<<48, 120, 48, 50, 48, 48, 48, 48, 52, 49>>, <<68, 84, 76>>>>,
    (* 0x02000043: DTL *) <<<<48, 120, 48, 50, 48, 48, 48, 48, 52, 51>>, <<68, 84, 76>>>>,
    (* 0x02000090: HW_IO *) <<<<48, 120, 48, 50, 48, 48, 48, 48, 57, 48>>, <<72, 87, 95, 73, 79>>>>,
    (* 0x02000091: HW_DEVICE *) <<<<48, 120, 48, 50, 48, 48, 48, 48, 57, 49>>, <<72, 87, 95, 68, 69, 86, 73, 67, 69>>>>,
    (* 0x02000092: HW_DPMASTER *) <<<<48, 120, 48, 50, 48, 48, 48, 48, 57, 50>>, <<72, 87, 95, 68, 80, 77, 65, 83, 84, 69, 82>>>>,
    (* 0x02000093: HW_DPSLAVE *) <<<<48, 120, 48, 50, 48, 48, 48, 48, 57, 51>>, <<72, 87, 95, 68, 80, 83, 76, 65, 86, 69>>>>,
    (* 0x02000094: HW_IOSYSTEM *) <<<<48, 120, 48, 50, 48, 48, 48, 48, 57, 52>>, <<72, 87, 95, 73, 79, 83, 89, 83, 84, 69, 77>>>>,
    (* 0x02000095: HW_SUBMODULE *) <<<<48, 120, 48, 50, 48, 48, 48, 48, 57, 53>>, <<72, 87, 95, 83, 85, 66, 77, 79, 68, 85, 76, 69>>>>,
    (* 0x02000096: Conn_Any *) <<<<48, 120, 48, 50, 48, 48, 48, 48, 57, 54>>, <<67, 111, 110, 110, 95, 65, 110, 121>>>>,
    (* 0x020000a0: DB_ANY *) <<<<48, 120, 48, 50, 48, 48, 48, 48, 97, 48>>, <<68, 66, 95, 65, 78, 89>>>>,
    (* 0x020000a1: DB_WWW *) <<<<48, 120, 48, 50, 48, 48, 48, 48, 97, 49>>, <<68, 66, 95, 87, 87, 87>>>>,
    (* 0x020000a2: DB_DYN *) <<<<48, 120, 48, 50, 48, 48, 48, 48, 97, 50>>, <<68, 66, 95, 68, 89, 78>>>>,
    (* 0x02080022: F_SYSINFO *) <<<<48, 120, 48, 50, 48, 56, 48, 48, 50, 50>>, <<70, 95, 83, 89, 83, 73, 78, 70, 79>>>>
>>

RidInMap(rid) == \E k \in 1..Len(RID_TYPE_MAP) : RID_TYPE_MAP[k][1] = rid

RidTypeName(rid) == RID_TYPE_MAP[CHOOSE k \in 1..Len(RID_TYPE_MAP) : RID_TYPE_MAP[k][1] = rid][2]

\* the RID is returned as it was written, not lowercased
ResolveType_raw(rid, written) == IF RidInMap(rid) THEN RidTypeName(rid) ELSE written

\* RID_TYPE_MAP.get(rid, rid), rid being the lowercased RID; `written` is
\* the RID as it stands in the text
ResolveType(rid, written) == IF RidInMap(rid) THEN RidTypeName(rid) ELSE rid

\* str.lower() for code points below U+0100
LowerChar(c) ==
    IF (65 <= c /\ c <= 90) \/ (192 <= c /\ c <= 222 /\ c # 215) THEN c + 32 ELSE c

Lower(s) == [k \in 1..Len(s) |-> LowerChar(s[k])]

\* b'<Member'
LIT_MEMBER == <<60, 77, 101, 109, 98, 101, 114>>

\* b'<Member '
LIT_MEMBER_SP == <<60, 77, 101, 109, 98, 101, 114, 32>>

\* b'<Member><Member'
LIT_MEMBER_MEMBER == <<60, 77, 101, 109, 98, 101, 114, 62, 60, 77, 101, 109, 98, 101, 114>>

\* b'ID="'
LIT_ID == <<73, 68, 61, 34>>

\* b'Name="'
LIT_NAME_EQ == <<78, 97, 109, 101, 61, 34>>

\* b'RID="'
LIT_RID_EQ == <<82, 73, 68, 61, 34>>

\* b'Type="'
LIT_TYPE_EQ == <<84, 121, 112, 101, 61, 34>>

\* b'SubPartIndex="'
LIT_SUBPARTINDEX_EQ == <<83, 117, 98, 80, 97, 114, 116, 73, 110, 100, 101, 120, 61, 34>>

\* b'SubPartIndex'
LIT_SUBPARTINDEX == <<83, 117, 98, 80, 97, 114, 116, 73, 110, 100, 101, 120>>

\* b'Input'
SEC_INPUT == <<73, 110, 112, 117, 116>>

\* b'Output'
SEC_OUTPUT == <<79, 117, 116, 112, 117, 116>>

\* b'InOut'
SEC_INOUT == <<73, 110, 79, 117, 116>>

\* b'Static'
SEC_STATIC == <<83, 116, 97, 116, 105, 99>>

\* b'Temp'
SEC_TEMP == <<84, 101, 109, 112>>

\* b'Constant'
SEC_CONSTANT == <<67, 111, 110, 115, 116, 97, 110, 116>>

\* b'Return'
SEC_RETURN == <<82, 101, 116, 117, 114, 110>>

\* b'F_SYSINFO'
LIT_F_SYSINFO == <<70, 95, 83, 89, 83, 73, 78, 70, 79>>

\* b'_dnACT_MOD_MODE_F_B'
LIT_DNACT == <<95, 100, 110, 65, 67, 84, 95, 77, 79, 68, 95, 77, 79, 68, 69, 95, 70, 95, 66>>

\* b'ALID'
LIT_ALID == <<65, 76, 73, 68>>

\* b'DB_INIT_C'
LIT_DB_INIT_C == <<68, 66, 95, 73, 78, 73, 84, 95, 67>>

\* b'MAX_CYC_L'
LIT_MAX_CYC_L == <<77, 65, 88, 95, 67, 89, 67, 95, 76>>

\* b'ExternalType'
LIT_EXTERNALTYPE == <<69, 120, 116, 101, 114, 110, 97, 108, 84, 121, 112, 101>>

\* b'Member'
LIT_MEMBER_WORD == <<77, 101, 109, 98, 101, 114>>

\* b'F_CTRL_1 (Safety FB)'
NAME_F_CTRL_1 == <<70, 95, 67, 84, 82, 76, 95, 49, 32, 40, 83, 97, 102, 101, 116, 121, 32, 70, 66, 41>>

\* b'SafeSys_DB (F-System)'
NAME_SAFESYS_DB == <<83, 97, 102, 101, 83, 121, 115, 95, 68, 66, 32, 40, 70, 45, 83, 121, 115, 116, 101, 109, 41>>

\* b'F_CTRL_Runtime (Safety Internal)'
NAME_F_CTRL_RUNTIME == <<70, 95, 67, 84, 82, 76, 95, 82, 117, 110, 116, 105, 109, 101, 32, 40, 83, 97, 102, 101, 116, 121, 32, 73, 110, 116, 101, 114, 110, 97, 108, 41>>

\* b'OB82_DiagAlarm'
NAME_OB82 == <<79, 66, 56, 50, 95, 68, 105, 97, 103, 65, 108, 97, 114, 109>>

\* b'F_CTRL_DB (Safety Data)'
NAME_F_CTRL_DB == <<70, 95, 67, 84, 82, 76, 95, 68, 66, 32, 40, 83, 97, 102, 101, 116, 121, 32, 68, 97, 116, 97, 41>>

\* b'Block_ref_'
NAME_BLOCK_REF == <<66, 108, 111, 99, 107, 95, 114, 101, 102, 95>>

\* b'Block_'
NAME_BLOCK == <<66, 108, 111, 99, 107, 95>>

\* b'Block_0x0000'
NAME_BLOCK_0 == <<66, 108, 111, 99, 107, 95, 48, 120, 48, 48, 48, 48>>

SECTIONS == <<SEC_INPUT, SEC_OUTPUT, SEC_INOUT, SEC_STATIC, SEC_TEMP, SEC_CONSTANT>>

\* \s+ then attr="([^"]+)" at q (or = TRUE: attr="(\d+)"; empty = TRUE:
\* attr="[^"]*"): the position behind it and the value, or end = -1
SpacedAttrAt(t, q, open, kind) ==
    LET w == SpaceEnd(t, q)
        a == w + Len(open)
        e == IF kind = "digits" THEN DigitsEnd(t, a) ELSE NotQuoteEnd(t, a)
    IN  IF /\ q >= 0 /\ w > q /\ LitAt(t, w, open)
           /\ (kind = "any" \/ e > a)
           /\ e < Len(t) /\ t[e + 1] = QUOTE
        THEN [end |-> e + 1, val |-> Slice(t, a, e)]
        ELSE [end |-> -1, val |-> <<>>]

\* the member pattern of lines 390-394 (and 414-418) anchored at k
TagMatchAt(t, k) ==
    IF ~LitAt(t, k, LIT_MEMBER) THEN NoMatch ELSE
    Let(SpacedAttrAt(t, k + Len(LIT_MEMBER), LIT_ID, "digits"), LAMBDA id :
    Let(SpacedAttrAt(t, id.end, LIT_NAME_EQ, "text"), LAMBDA name :
    Let(SpacedAttrAt(t, name.end, LIT_RID_EQ, "text"), LAMBDA rid :
    Let(SpacedAttrAt(t, rid.end, LIT_TYPE_EQ, "text"), LAMBDA type :
    Let(IF type.end # -1 THEN type.end ELSE rid.end, LAMBDA q1 :
    Let(SpacedAttrAt(t, q1, LIT_SUBPARTINDEX_EQ, "any"), LAMBDA sub :
    Let(IF sub.end # -1 THEN sub.end ELSE q1, LAMBDA q2 :
    Let(SpacedAttrAt(t, q2, LIT_STDO, "digits"), LAMBDA stdo :
    Let(IF stdo.end # -1 THEN stdo.end ELSE q2, LAMBDA q3 :
    Let(SpacedAttrAt(t, q3, LIT_LID, "digits"), LAMBDA lid :
        IF id.end = -1 THEN NoMatch
        ELSE IF name.end = -1 THEN NoMatch
        ELSE IF rid.end = -1 THEN NoMatch
        ELSE [end |-> IF lid.end # -1 THEN lid.end ELSE q3,
              id |-> id.val, name |-> name.val, rid |-> rid.val,
              type |-> type.val, stdo |-> stdo.val, lid |-> lid.val]))))))))))

\* TagEntry(...) of lines 397-409
TagEntry(m, block_name, section) ==
    [block_name |-> block_name, section |-> section, name |-> m.name,
     data_type |-> IF m.type # <<>> THEN m.type ELSE ResolveType(Lower(m.rid), m.rid),
     address |-> <<>>,
     offset |-> IF m.stdo # <<>> THEN ParseInt(m.stdo) ELSE -1,
     initial_value |-> <<>>, comment |-> <<>>,
     member_id |-> ParseInt(m.id), rid |-> Lower(m.rid), group |-> <<>>]

\* re.finditer of the member pattern over t from `from`: the raw matches
RECURSIVE TagMatchesFrom(_, _)
TagMatchesFrom(t, from) ==
    Let(FirstWhere(from, Len(t) - 1,
                   LAMBDA p : LitAt(t, p, LIT_MEMBER) /\ TagMatchAt(t, p).end # -1),
        LAMBDA k :
          IF k = -1 THEN <<>>
          ELSE Let(TagMatchAt(t, k), LAMBDA m : <<m>> \o TagMatchesFrom(t, m.end)))

\* Name="<section>"[^>]*> : the position behind the first match, or -1
SectionStart(t, section) ==
    LET open == LIT_NAME_EQ \o section \o <<QUOTE>>
        hit(p) == LitAt(t, p, open) /\ NotGtEnd(t, p + Len(open)) < Len(t)
        k == FirstWhere(0, Len(t) - 1, hit)
    IN  IF k = -1 THEN -1 ELSE NotGtEnd(t, k + Len(open)) + 1

\* Name="<other>"[^>]*SubPartIndex searched in t: where the first match starts
BoundaryStart(t, other) ==
    LET open == LIT_NAME_EQ \o other \o <<QUOTE>>
        hit(p) ==
          /\ LitAt(t, p, open)
          /\ \E r \in (p + Len(open))..(NotGtEnd(t, p + Len(open)) - Len(LIT_SUBPARTINDEX)) :
               LitAt(t, r, LIT_SUBPARTINDEX)
    IN  FirstWhere(0, Len(t) - 1, hit)

\* lines 377-384: where the text of the section that starts at `start` ends
SectionEnd(t, start, section) ==
    Let(From(t, start), LAMBDA tail :
    Let([o \in 1..Len(SECTIONS) |-> IF SECTIONS[o] = section THEN -1
                                    ELSE BoundaryStart(tail, SECTIONS[o])], LAMBDA at :
    Let({start + at[o] : o \in {x \in 1..Len(SECTIONS) : at[x] # -1}}, LAMBDA ends :
        IF ends = {} THEN Len(t) ELSE CHOOSE e \in ends : \A f \in ends : e <= f)))

\* the members one section contributes (lines 368-409)
MembersOfSection(t, block_name, section) ==
    Let(SectionStart(t, section), LAMBDA start :
        IF start = -1 THEN <<>>
        ELSE Let(TagMatchesFrom(Slice(t, start, SectionEnd(t, start, section)), 0),
                 LAMBDA found :
                   [k \in 1..Len(found) |-> TagEntry(found[k], block_name, section)]))

\* lines 412-438: every member of the text, section headers skipped
FlatMembers(t, block_name) ==
    Let(SelectSeq(TagMatchesFrom(t, 0),
                  LAMBDA m : ~Member(m.name, SECTIONS \o <<SEC_RETURN>>)),
        LAMBDA kept : [k \in 1..Len(kept) |-> TagEntry(kept[k], block_name, SEC_STATIC)])

\* _parse_members_xml(text, block_name)
ParseMembersXml(t, block_name) ==
    Let(Concat([s \in 1..Len(SECTIONS) |-> MembersOfSection(t, block_name, SECTIONS[s])]),
        LAMBDA sectioned :
          IF sectioned # <<>> THEN sectioned ELSE FlatMembers(t, block_name))


\* sep.join(ss)
RECURSIVE JoinWith(_, _)
JoinWith(ss, sep) ==
    IF ss = <<>> THEN <<>>
    ELSE IF Len(ss) = 1 THEN ss[1]
    ELSE ss[1] \o sep \o JoinWith(Tail(ss), sep)

\* <word>[^>]*Name="([^"]+)" anchored at k: [^>]* is greedy, so the last
\* Name="..." that starts before the first '>' is the one captured
NamedAfterAt(t, k, word) ==
    IF ~LitAt(t, k, word) THEN NoAttr
    ELSE Let(LastWhere(k + Len(word), NotGtEnd(t, k + Len(word)),
                       LAMBDA p : QuotedAt(t, p, LIT_NAME_EQ).end # -1),
             LAMBDA r : IF r # -1 THEN QuotedAt(t, r, LIT_NAME_EQ) ELSE NoAttr)

\* re.findall(r'Member[^>]*Name="([^"]+)"', text), at most n of them
RECURSIVE MemberNamesFrom(_, _, _)
MemberNamesFrom(t, from, n) ==
    IF n = 0 THEN <<>>
    ELSE Let(FirstWhere(from, Len(t) - 1,
                        LAMBDA p : LitAt(t, p, LIT_MEMBER_WORD)
                                     /\ NamedAfterAt(t, p, LIT_MEMBER_WORD).end # -1),
             LAMBDA k :
               IF k = -1 THEN <<>>
               ELSE Let(NamedAfterAt(t, k, LIT_MEMBER_WORD),
                        LAMBDA m : <<m.val>> \o MemberNamesFrom(t, m.end, n - 1)))

\* _identify_block(data, text)
IdentifyBlock(d, t) ==
    IF Contains(d, LIT_F_PROG_DAT) \/ Contains(d, LIT_F_RTG_DAT)
    THEN IF Contains(d, LIT_F_SYSINFO) THEN NAME_F_CTRL_1 ELSE NAME_SAFESYS_DB
    ELSE IF Contains(d, LIT_DNVKE) \/ Contains(d, LIT_LNCACHE) \/ Contains(d, LIT_DNACT)
    THEN NAME_F_CTRL_RUNTIME
    ELSE IF Contains(d, LIT_CHANNELINFO) /\ Contains(d, LIT_ALID) THEN NAME_OB82
    ELSE IF Contains(d, LIT_DB_INIT_C) /\ Contains(d, LIT_MAX_CYC_L) THEN NAME_F_CTRL_DB
    ELSE
    Let(FirstWhere(0, Len(t) - 1,
                   LAMBDA p : LitAt(t, p, LIT_EXTERNALTYPE)
                                /\ NamedAfterAt(t, p, LIT_EXTERNALTYPE).end # -1),
        LAMBDA ext :
          IF ext # -1 THEN NAME_BLOCK_REF \o NamedAfterAt(t, ext, LIT_EXTERNALTYPE).val
          ELSE Let(JoinWith(MemberNamesFrom(t, 0, 2), <<95>>), LAMBDA joined :
                   IF joined # <<>>
                   THEN NAME_BLOCK \o SubSeq(joined, 1, Min(Len(joined), 30))
                   ELSE NAME_BLOCK_0))

\* the page test of lines 296-300
IsTagPage(blk) ==
    /\ blk.size = PAGE_SIZE
    /\ Contains(blk.data, LIT_MEMBER_SP)
    /\ (Contains(blk.data, LIT_ROOT) \/ Contains(blk.data, LIT_MEMBER_MEMBER))

\* the signature built from the first member name only
SignatureNames_one(members) == [k \in 1..Min(Len(members), 1) |-> members[k].name]

\* m.name for m in members[:5]
SignatureNames(members) == [k \in 1..Min(Len(members), 5) |-> members[k].name]

\* f"{block_name}:" + ",".join(m.name for m in members[:5])
Signature(block_name, members) ==
    block_name \o <<58>> \o JoinWith(SignatureNames(members), <<44>>)

\* the loop of TiaTagExporter._parse_block_interfaces over blocks[k..]
RECURSIVE TagsOfBlocks(_, _, _, _)
TagsOfBlocks(blocks, k, seen, held) ==
    IF k > Len(blocks) THEN held
    ELSE IF ~IsTagPage(blocks[k]) THEN TagsOfBlocks(blocks, k + 1, seen, held)
    ELSE
      Let(Utf8DecodeReplace(blocks[k].data), LAMBDA text :
      Let(IdentifyBlock(blocks[k].data, text), LAMBDA block_name :
      Let(ParseMembersXml(text, block_name), LAMBDA members :
      Let(Signature(block_name, members), LAMBDA sig :
          IF members = <<>> \/ sig \in seen
          THEN TagsOfBlocks(blocks, k + 1, seen, held)
          ELSE TagsOfBlocks(blocks, k + 1, seen \cup {sig}, held \o members)))))

\* the exporter's loop stops one position earlier
TagScanGuard_short(d, k) == k < Len(d) - 3

\* while i < len(data) - 2
TagScanGuard(d, k) == k < Len(d) - 2

\* one iteration of the exporter's while loop: the new cursor and block list.
\* The blocks are kept without their compressed size.
TagScanStep(d, k, blocks) ==
    Let(Inflate(From(d, k)), LAMBDA dec :
        IF /\ At(d, k) = 120 /\ At(d, k + 1) \in {1, 94, 156, 218}
           /\ dec.ok /\ Len(dec.out) >= 10
        THEN [i |-> k + (Len(From(d, k)) - dec.unused),
              blocks |-> Append(blocks, [offset |-> k, data |-> dec.out, size |-> Len(dec.out)])]
        ELSE [i |-> k + 1, blocks |-> blocks])

\* the exporter's loop from cursor k on.  An iteration at a position that
\* does not hold 0x78 only moves the cursor by one.
RECURSIVE TagScanFrom(_, _, _)
TagScanFrom(d, k, blocks) ==
    Let(FirstWhere(k, Len(d) - 3, LAMBDA p : At(d, p) = 120), LAMBDA a :
        IF a = -1 THEN blocks
        ELSE Let(TagScanStep(d, a, blocks), LAMBDA s : TagScanFrom(d, s.i, s.blocks)))

\* TiaTagExporter._extract_zlib_blocks(data)
TagBlocks(d) == TagScanFrom(d, 0, <<>>)

\* _parse_block_interfaces(blocks) on an exporter whose self._tags is `held`
TagParseBlockInterfaces(blocks, held) == TagsOfBlocks(blocks, 1, {}, held)

-----------------------------------------------------------------------------
(* TiaProjectReader.read and its file helpers                               *)

\* ProjectInfo()
EmptyInfo ==
    [name |-> <<>>, tia_version |-> <<>>, station_name |-> <<>>, cpu |-> NoCpu,
     devices |-> <<>>, libraries |-> <<>>, meta_packages |-> <<>>, blocks |-> <<>>,
     timestamps |-> <<>>, xref_tables |-> <<>>]

\* _read_ap_file(info).  The .ap file is one of: absent, an XML document
\* whose root carries Name and ProjectCompatibilityVersion, or a file that
\* ET.parse rejects (then the file stem becomes the name).
ReadApFile(ap, info) ==
    IF ap.kind = "absent" THEN info
    ELSE IF ap.kind = "xml" THEN [info EXCEPT !.name = ap.name, !.tia_version = ap.version]
    ELSE [info EXCEPT !.name = ap.stem]

\* _read_xref(xref_path, info).  The database is a list of (table, rows)
\* pairs; a query fails from table number `fails` on (0: none fails), and the
\* exception is swallowed with the counts recorded so far kept.
ReadXref(xref, info) ==
    LET n == IF xref.fails = 0 THEN Len(xref.tables) ELSE xref.fails - 1
    IN  [info EXCEPT !.xref_tables = SubSeq(xref.tables, 1, n)]

\* lines 172-180: the extractors over the segment list, in call order.
\* An exception leaves read() before anything is returned.
ReadPlf(segs, info) ==
    Let(ParseDevices(segs, info.station_name, info.devices), LAMBDA dev :
    Let(ParseCpuAttributes(segs, segs, dev.devices), LAMBDA cpu :
        IF cpu.raised THEN [raised |-> TRUE, info |-> EmptyInfo]
        ELSE [raised |-> FALSE,
              info |-> [info EXCEPT
                 !.meta_packages = ParseMetaPackages(segs, info.meta_packages),
                 !.station_name  = dev.station_name,
                 !.devices       = dev.devices,
                 !.cpu           = cpu.cpu,
                 !.libraries     = ParseLibraryVersions(segs, info.libraries),
                 !.blocks        = ParseBlockInterfaces(segs, info.blocks),
                 !.timestamps    = ParseTimestamps(segs, info.timestamps)]]))

\* read() on a reader that holds the segment list `old`, over the project
\* directory `dir` = [ap, plf, xref]: what it returns (or that it raised) and
\* the reader's fields afterwards
ReadProject(dir, old_data, old) ==
    Let(ReadApFile(dir.ap, EmptyInfo), LAMBDA info1 :
    Let(IF dir.plf.exists THEN ExtractZlibBlocks(dir.plf.bytes, old) ELSE old, LAMBDA segs :
    Let(IF dir.plf.exists THEN ReadPlf(segs, info1)
        ELSE [raised |-> FALSE, info |-> info1], LAMBDA plf :
        [raised      |-> plf.raised,
         info        |-> IF plf.raised \/ ~dir.xref.exists THEN plf.info
                         ELSE ReadXref(dir.xref, plf.info),
         plf_data    |-> IF dir.plf.exists THEN dir.plf.bytes ELSE old_data,
         zlib_blocks |-> segs])))

\* parse() without the test of self._parsed: every call reads the container
\* and appends to the tags that are held
ParseProject_again(dir, old_tags, was_parsed) ==
    IF ~dir.plf.exists THEN [raised |-> TRUE, tags |-> old_tags, parsed |-> FALSE]
    ELSE [raised |-> FALSE,
          tags   |-> TagParseBlockInterfaces(TagBlocks(dir.plf.bytes), old_tags),
          parsed |-> TRUE]

\* TiaTagExporter.parse() on an exporter that holds `old_tags`:
\* FileNotFoundError when the PLF is absent
ParseProject(dir, old_tags, was_parsed) ==
    IF was_parsed THEN [raised |-> FALSE, tags |-> old_tags, parsed |-> TRUE]
    ELSE IF ~dir.plf.exists THEN [raised |-> TRUE, tags |-> old_tags, parsed |-> FALSE]
    ELSE [raised |-> FALSE,
          tags   |-> TagParseBlockInterfaces(TagBlocks(dir.plf.bytes), old_tags),
          parsed |-> TRUE]

-----------------------------------------------------------------------------
(* Project directories.  A PLF file is a 64-byte all-zero header followed   *)
(* by its pages, each compressed on its own; the pages are kept beside the  *)
(* bytes so that properties can speak about what a file was built from.     *)

Zeros(n) == [k \in 1..n |-> 0]

\* the text followed by zero bytes up to n bytes
PadTo(text, n) == text \o Zeros(n - Len(text))

\* a data page: the text padded to the page size
Pad(text) == PadTo(text, PAGE_SIZE)

PlfBytes(pages) == Zeros(64) \o Concat([k \in 1..Len(pages) |-> Compress(pages[k])])

\* b'Attribute Name="FwVersion" Type="String" Value="V2.1"'
LIT_FW_V21 == <<65, 116, 116, 114, 105, 98, 117, 116, 101, 32, 78, 97, 109, 101, 61, 34, 70, 119, 86, 101, 114, 115, 105, 111, 110, 34, 32, 84, 121, 112, 101, 61, 34, 83, 116, 114, 105, 110, 103, 34, 32, 86, 97, 108, 117, 101, 61, 34, 86, 50, 46, 49, 34>>

\* b'<Attribute Name="FwVersion" Type="String" Value="V2.1" />'
TEXT_FW == <<60, 65, 116, 116, 114, 105, 98, 117, 116, 101, 32, 78, 97, 109, 101, 61, 34, 70, 119, 86, 101, 114, 115, 105, 111, 110, 34, 32, 84, 121, 112, 101, 61, 34, 83, 116, 114, 105, 110, 103, 34, 32, 86, 97, 108, 117, 101, 61, 34, 86, 50, 46, 49, 34, 32, 47, 62>>

\* b'<Attribute Name="FwVersion" Type="String" Value="V2.1" /><Attribute Name="IecplMaxNumberOfBlocks" Type="UInt" Value="n/a" />'
TEXT_MAXBLOCKS_BAD == <<60, 65, 116, 116, 114, 105, 98, 117, 116, 101, 32, 78, 97, 109, 101, 61, 34, 70, 119, 86, 101, 114, 115, 105, 111, 110, 34, 32, 84, 121, 112, 101, 61, 34, 83, 116, 114, 105, 110, 103, 34, 32, 86, 97, 108, 117, 101, 61, 34, 86, 50, 46, 49, 34, 32, 47, 62, 60, 65, 116, 116, 114, 105, 98, 117, 116, 101, 32, 78, 97, 109, 101, 61, 34, 73, 101, 99, 112, 108, 77, 97, 120, 78, 117, 109, 98, 101, 114, 79, 102, 66, 108, 111, 99, 107, 115, 34, 32, 84, 121, 112, 101, 61, 34, 85, 73, 110, 116, 34, 32, 86, 97, 108, 117, 101, 61, 34, 110, 47, 97, 34, 32, 47, 62>>

\* b'<Attribute Name="Subtype" Type="String" Value="S71200" /><Attribute Name="FwVersion" Type="String" Value="V4.2" /><Attribute Name="IecplMaxNumberOfBlocks" Type="UInt" Value="1024" /><Attribute Name="IecplSupportedLanguages" Type="String" Value="1;2;4" />'
TEXT_CPU == <<60, 65, 116, 116, 114, 105, 98, 117, 116, 101, 32, 78, 97, 109, 101, 61, 34, 83, 117, 98, 116, 121, 112, 101, 34, 32, 84, 121, 112, 101, 61, 34, 83, 116, 114, 105, 110, 103, 34, 32, 86, 97, 108, 117, 101, 61, 34, 83, 55, 49, 50, 48, 48, 34, 32, 47, 62, 60, 65, 116, 116, 114, 105, 98, 117, 116, 101, 32, 78, 97, 109, 101, 61, 34, 70, 119, 86, 101, 114, 115, 105, 111, 110, 34, 32, 84, 121, 112, 101, 61, 34, 83, 116, 114, 105, 110, 103, 34, 32, 86, 97, 108, 117, 101, 61, 34, 86, 52, 46, 50, 34, 32, 47, 62, 60, 65, 116, 116, 114, 105, 98, 117, 116, 101, 32, 78, 97, 109, 101, 61, 34, 73, 101, 99, 112, 108, 77, 97, 120, 78, 117, 109, 98, 101, 114, 79, 102, 66, 108, 111, 99, 107, 115, 34, 32, 84, 121, 112, 101, 61, 34, 85, 73, 110, 116, 34, 32, 86, 97, 108, 117, 101, 61, 34, 49, 48, 50, 52, 34, 32, 47, 62, 60, 65, 116, 116, 114, 105, 98, 117, 116, 101, 32, 78, 97, 109, 101, 61, 34, 73, 101, 99, 112, 108, 83, 117, 112, 112, 111, 114, 116, 101, 100, 76, 97, 110, 103, 117, 97, 103, 101, 115, 34, 32, 84, 121, 112, 101, 61, 34, 83, 116, 114, 105, 110, 103, 34, 32, 86, 97, 108, 117, 101, 61, 34, 49, 59, 50, 59, 52, 34, 32, 47, 62>>

\* b'Member ID="1" Name="Enable" RID="0x02000001" LID="5"'
LIT_ENABLE == <<77, 101, 109, 98, 101, 114, 32, 73, 68, 61, 34, 49, 34, 32, 78, 97, 109, 101, 61, 34, 69, 110, 97, 98, 108, 101, 34, 32, 82, 73, 68, 61, 34, 48, 120, 48, 50, 48, 48, 48, 48, 48, 49, 34, 32, 76, 73, 68, 61, 34, 53, 34>>

\* b'<Root RIdSlots="2"><Member ID="1" Name="Enable" RID="0x02000001" LID="5" /></Root>'
TEXT_ENABLE == <<60, 82, 111, 111, 116, 32, 82, 73, 100, 83, 108, 111, 116, 115, 61, 34, 50, 34, 62, 60, 77, 101, 109, 98, 101, 114, 32, 73, 68, 61, 34, 49, 34, 32, 78, 97, 109, 101, 61, 34, 69, 110, 97, 98, 108, 101, 34, 32, 82, 73, 68, 61, 34, 48, 120, 48, 50, 48, 48, 48, 48, 48, 49, 34, 32, 76, 73, 68, 61, 34, 53, 34, 32, 47, 62, 60, 47, 82, 111, 111, 116, 62>>

\* b'<Root RIdSlots="2"><Member ID="1" Name="Enable" RID="0x02000001" LID="5"><Member ID="2" Name="Start" RID="0x02000004" LID="9" /></Member></Root>'
TEXT_NESTED == <<60, 82, 111, 111, 116, 32, 82, 73, 100, 83, 108, 111, 116, 115, 61, 34, 50, 34, 62, 60, 77, 101, 109, 98, 101, 114, 32, 73, 68, 61, 34, 49, 34, 32, 78, 97, 109, 101, 61, 34, 69, 110, 97, 98, 108, 101, 34, 32, 82, 73, 68, 61, 34, 48, 120, 48, 50, 48, 48, 48, 48, 48, 49, 34, 32, 76, 73, 68, 61, 34, 53, 34, 62, 60, 77, 101, 109, 98, 101, 114, 32, 73, 68, 61, 34, 50, 34, 32, 78, 97, 109, 101, 61, 34, 83, 116, 97, 114, 116, 34, 32, 82, 73, 68, 61, 34, 48, 120, 48, 50, 48, 48, 48, 48, 48, 52, 34, 32, 76, 73, 68, 61, 34, 57, 34, 32, 47, 62, 60, 47, 77, 101, 109, 98, 101, 114, 62, 60, 47, 82, 111, 111, 116, 62>>

\* b'<Root RIdSlots="4"><Member ID="1" Name="Enable" RID="0x02000001" LID="5" /><Member ID="2" Name="Speed" RID="0x0200ABCD" LID="6" /><Member ID="3" Name="Motor" RID="0x02000001" Type="MotorUdt" LID="7" /><Member ID="4" Name="Delay" RID="0x0200000B" LID="8" /></Root>'
TEXT_TYPES == <<60, 82, 111, 111, 116, 32, 82, 73, 100, 83, 108, 111, 116, 115, 61, 34, 52, 34, 62, 60, 77, 101, 109, 98, 101, 114, 32, 73, 68, 61, 34, 49, 34, 32, 78, 97, 109, 101, 61, 34, 69, 110, 97, 98, 108, 101, 34, 32, 82, 73, 68, 61, 34, 48, 120, 48, 50, 48, 48, 48, 48, 48, 49, 34, 32, 76, 73, 68, 61, 34, 53, 34, 32, 47, 62, 60, 77, 101, 109, 98, 101, 114, 32, 73, 68, 61, 34, 50, 34, 32, 78, 97, 109, 101, 61, 34, 83, 112, 101, 101, 100, 34, 32, 82, 73, 68, 61, 34, 48, 120, 48, 50, 48, 48, 65, 66, 67, 68, 34, 32, 76, 73, 68, 61, 34, 54, 34, 32, 47, 62, 60, 77, 101, 109, 98, 101, 114, 32, 73, 68, 61, 34, 51, 34, 32, 78, 97, 109, 101, 61, 34, 77, 111, 116, 111, 114, 34, 32, 82, 73, 68, 61, 34, 48, 120, 48, 50, 48, 48, 48, 48, 48, 49, 34, 32, 84, 121, 112, 101, 61, 34, 77, 111, 116, 111, 114, 85, 100, 116, 34, 32, 76, 73, 68, 61, 34, 55, 34, 32, 47, 62, 60, 77, 101, 109, 98, 101, 114, 32, 73, 68, 61, 34, 52, 34, 32, 78, 97, 109, 101, 61, 34, 68, 101, 108, 97, 121, 34, 32, 82, 73, 68, 61, 34, 48, 120, 48, 50, 48, 48, 48, 48, 48, 66, 34, 32, 76, 73, 68, 61, 34, 56, 34, 32, 47, 62, 60, 47, 82, 111, 111, 116, 62>>

\* b'<LibraryVersions><Library LibGuid="g1" DisplayVersion="1.0" SwitchMinor="true" /></LibraryVersions>'
TEXT_LIBRARY == <<60, 76, 105, 98, 114, 97, 114, 121, 86, 101, 114, 115, 105, 111, 110, 115, 62, 60, 76, 105, 98, 114, 97, 114, 121, 32, 76, 105, 98, 71, 117, 105, 100, 61, 34, 103, 49, 34, 32, 68, 105, 115, 112, 108, 97, 121, 86, 101, 114, 115, 105, 111, 110, 61, 34, 49, 46, 48, 34, 32, 83, 119, 105, 116, 99, 104, 77, 105, 110, 111, 114, 61, 34, 116, 114, 117, 101, 34, 32, 47, 62, 60, 47, 76, 105, 98, 114, 97, 114, 121, 86, 101, 114, 115, 105, 111, 110, 115, 62>>

\* b'<MetaInfo><Package name="Core" /></MetaInfo>'
TEXT_META == <<60, 77, 101, 116, 97, 73, 110, 102, 111, 62, 60, 80, 97, 99, 107, 97, 103, 101, 32, 110, 97, 109, 101, 61, 34, 67, 111, 114, 101, 34, 32, 47, 62, 60, 47, 77, 101, 116, 97, 73, 110, 102, 111, 62>>

\* b'\x11S7PCentralStation\rStation_1/PLC\x04Role\x03CPU\x08Template\x02T1\x08ObjectId\x0242Siemens\tCPU 1214C\x136ES7 214-1AG40-0XB03/14/2019 9:26:53 AM'
TEXT_DEVICE == <<17, 83, 55, 80, 67, 101, 110, 116, 114, 97, 108, 83, 116, 97, 116, 105, 111, 110, 13, 83, 116, 97, 116, 105, 111, 110, 95, 49, 47, 80, 76, 67, 4, 82, 111, 108, 101, 3, 67, 80, 85, 8, 84, 101, 109, 112, 108, 97, 116, 101, 2, 84, 49, 8, 79, 98, 106, 101, 99, 116, 73, 100, 2, 52, 50, 83, 105, 101, 109, 101, 110, 115, 9, 67, 80, 85, 32, 49, 50, 49, 52, 67, 19, 54, 69, 83, 55, 32, 50, 49, 52, 45, 49, 65, 71, 52, 48, 45, 48, 88, 66, 48, 51, 47, 49, 52, 47, 50, 48, 49, 57, 32, 57, 58, 50, 54, 58, 53, 51, 32, 65, 77>>

\* b'Enable'
NAME_ENABLE == <<69, 110, 97, 98, 108, 101>>

\* b'Bool'
NAME_BOOL == <<66, 111, 111, 108>>

\* b'V2.1'
VALUE_V21 == <<86, 50, 46, 49>>

\* b'Demo'
NAME_DEMO == <<68, 101, 109, 111>>

\* b'V14'
NAME_V14 == <<86, 49, 52>>

\* b'Refs'
NAME_TABLE_A == <<82, 101, 102, 115>>

\* b'Objects'
NAME_TABLE_B == <<79, 98, 106, 101, 99, 116, 115>>

\* a device page whose catalog name is 'S7-CPU 1214C'
\* b'\x11S7PCentralStation\rStation_1/PLC\x04Role\x03CPU\x08Template\x02T1\x08ObjectId\x0242Siemens\x0cS7-CPU 1214C\x136ES7 214-1AG40-0XB03/14/2019 9:26:53 AM'
TEXT_DEVICE2 == <<17, 83, 55, 80, 67, 101, 110, 116, 114, 97, 108, 83, 116, 97, 116, 105, 111, 110, 13, 83, 116, 97, 116, 105, 111, 110, 95, 49, 47, 80, 76, 67, 4, 82, 111, 108, 101, 3, 67, 80, 85, 8, 84, 101, 109, 112, 108, 97, 116, 101, 2, 84, 49, 8, 79, 98, 106, 101, 99, 116, 73, 100, 2, 52, 50, 83, 105, 101, 109, 101, 110, 115, 12, 83, 55, 45, 67, 80, 85, 32, 49, 50, 49, 52, 67, 19, 54, 69, 83, 55, 32, 50, 49, 52, 45, 49, 65, 71, 52, 48, 45, 48, 88, 66, 48, 51, 47, 49, 52, 47, 50, 48, 49, 57, 32, 57, 58, 50, 54, 58, 53, 51, 32, 65, 77>>

\* six members
\* b'<Root RIdSlots="6"><Member ID="1" Name="A1" RID="0x02000001" LID="1" /><Member ID="2" Name="B2" RID="0x02000001" LID="2" /><Member ID="3" Name="C3" RID="0x02000001" LID="3" /><Member ID="4" Name="D4" RID="0x02000001" LID="4" /><Member ID="5" Name="E5" RID="0x02000001" LID="5" /><Member ID="6" Name="F6" RID="0x02000001" LID="6" /></Root>'
TEXT_SIX_A == <<60, 82, 111, 111, 116, 32, 82, 73, 100, 83, 108, 111, 116, 115, 61, 34, 54, 34, 62, 60, 77, 101, 109, 98, 101, 114, 32, 73, 68, 61, 34, 49, 34, 32, 78, 97, 109, 101, 61, 34, 65, 49, 34, 32, 82, 73, 68, 61, 34, 48, 120, 48, 50, 48, 48, 48, 48, 48, 49, 34, 32, 76, 73, 68, 61, 34, 49, 34, 32, 47, 62, 60, 77, 101, 109, 98, 101, 114, 32, 73, 68, 61, 34, 50, 34, 32, 78, 97, 109, 101, 61, 34, 66, 50, 34, 32, 82, 73, 68, 61, 34, 48, 120, 48, 50, 48, 48, 48, 48, 48, 49, 34, 32, 76, 73, 68, 61, 34, 50, 34, 32, 47, 62, 60, 77, 101, 109, 98, 101, 114, 32, 73, 68, 61, 34, 51, 34, 32, 78, 97, 109, 101, 61, 34, 67, 51, 34, 32, 82, 73, 68, 61, 34, 48, 120, 48, 50, 48, 48, 48, 48, 48, 49, 34, 32, 76, 73, 68, 61, 34, 51, 34, 32, 47, 62, 60, 77, 101, 109, 98, 101, 114, 32, 73, 68, 61, 34, 52, 34, 32, 78, 97, 109, 101, 61, 34, 68, 52, 34, 32, 82, 73, 68, 61, 34, 48, 120, 48, 50, 48, 48, 48, 48, 48, 49, 34, 32, 76, 73, 68, 61, 34, 52, 34, 32, 47, 62, 60, 77, 101, 109, 98, 101, 114, 32, 73, 68, 61, 34, 53, 34, 32, 78, 97, 109, 101, 61, 34, 69, 53, 34, 32, 82, 73, 68, 61, 34, 48, 120, 48, 50, 48, 48, 48, 48, 48, 49, 34, 32, 76, 73, 68, 61, 34, 53, 34, 32, 47, 62, 60, 77, 101, 109, 98, 101, 114, 32, 73, 68, 61, 34, 54, 34, 32, 78, 97, 109, 101, 61, 34, 70, 54, 34, 32, 82, 73, 68, 61, 34, 48, 120, 48, 50, 48, 48, 48, 48, 48, 49, 34, 32, 76, 73, 68, 61, 34, 54, 34, 32, 47, 62, 60, 47, 82, 111, 111, 116, 62>>

\* the same first five members and another sixth
\* b'<Root RIdSlots="6"><Member ID="1" Name="A1" RID="0x02000001" LID="1" /><Member ID="2" Name="B2" RID="0x02000001" LID="2" /><Member ID="3" Name="C3" RID="0x02000001" LID="3" /><Member ID="4" Name="D4" RID="0x02000001" LID="4" /><Member ID="5" Name="E5" RID="0x02000001" LID="5" /><Member ID="6" Name="G7" RID="0x02000001" LID="6" /></Root>'
TEXT_SIX_B == <<60, 82, 111, 111, 116, 32, 82, 73, 100, 83, 108, 111, 116, 115, 61, 34, 54, 34, 62, 60, 77, 101, 109, 98, 101, 114, 32, 73, 68, 61, 34, 49, 34, 32, 78, 97, 109, 101, 61, 34, 65, 49, 34, 32, 82, 73, 68, 61, 34, 48, 120, 48, 50, 48, 48, 48, 48, 48, 49, 34, 32, 76, 73, 68, 61, 34, 49, 34, 32, 47, 62, 60, 77, 101, 109, 98, 101, 114, 32, 73, 68, 61, 34, 50, 34, 32, 78, 97, 109, 101, 61, 34, 66, 50, 34, 32, 82, 73, 68, 61, 34, 48, 120, 48, 50, 48, 48, 48, 48, 48, 49, 34, 32, 76, 73, 68, 61, 34, 50, 34, 32, 47, 62, 60, 77, 101, 109, 98, 101, 114, 32, 73, 68, 61, 34, 51, 34, 32, 78, 97, 109, 101, 61, 34, 67, 51, 34, 32, 82, 73, 68, 61, 34, 48, 120, 48, 50, 48, 48, 48, 48, 48, 49, 34, 32, 76, 73, 68, 61, 34, 51, 34, 32, 47, 62, 60, 77, 101, 109, 98, 101, 114, 32, 73, 68, 61, 34, 52, 34, 32, 78, 97, 109, 101, 61, 34, 68, 52, 34, 32, 82, 73, 68, 61, 34, 48, 120, 48, 50, 48, 48, 48, 48, 48, 49, 34, 32, 76, 73, 68, 61, 34, 52, 34, 32, 47, 62, 60, 77, 101, 109, 98, 101, 114, 32, 73, 68, 61, 34, 53, 34, 32, 78, 97, 109, 101, 61, 34, 69, 53, 34, 32, 82, 73, 68, 61, 34, 48, 120, 48, 50, 48, 48, 48, 48, 48, 49, 34, 32, 76, 73, 68, 61, 34, 53, 34, 32, 47, 62, 60, 77, 101, 109, 98, 101, 114, 32, 73, 68, 61, 34, 54, 34, 32, 78, 97, 109, 101, 61, 34, 71, 55, 34, 32, 82, 73, 68, 61, 34, 48, 120, 48, 50, 48, 48, 48, 48, 48, 49, 34, 32, 76, 73, 68, 61, 34, 54, 34, 32, 47, 62, 60, 47, 82, 111, 111, 116, 62>>

\* two members of the diagnostics block
\* b'<Root RIdSlots="2" ChannelInfo="ALID"><Member ID="1" Name="Enable" RID="0x02000001" LID="5" /><Member ID="2" Name="Start" RID="0x02000004" LID="6" /></Root>'
TEXT_DIAG_A == <<60, 82, 111, 111, 116, 32, 82, 73, 100, 83, 108, 111, 116, 115, 61, 34, 50, 34, 32, 67, 104, 97, 110, 110, 101, 108, 73, 110, 102, 111, 61, 34, 65, 76, 73, 68, 34, 62, 60, 77, 101, 109, 98, 101, 114, 32, 73, 68, 61, 34, 49, 34, 32, 78, 97, 109, 101, 61, 34, 69, 110, 97, 98, 108, 101, 34, 32, 82, 73, 68, 61, 34, 48, 120, 48, 50, 48, 48, 48, 48, 48, 49, 34, 32, 76, 73, 68, 61, 34, 53, 34, 32, 47, 62, 60, 77, 101, 109, 98, 101, 114, 32, 73, 68, 61, 34, 50, 34, 32, 78, 97, 109, 101, 61, 34, 83, 116, 97, 114, 116, 34, 32, 82, 73, 68, 61, 34, 48, 120, 48, 50, 48, 48, 48, 48, 48, 52, 34, 32, 76, 73, 68, 61, 34, 54, 34, 32, 47, 62, 60, 47, 82, 111, 111, 116, 62>>

\* the same block and first member, another second member
\* b'<Root RIdSlots="2" ChannelInfo="ALID"><Member ID="1" Name="Enable" RID="0x02000001" LID="5" /><Member ID="2" Name="Speed" RID="0x02000004" LID="6" /></Root>'
TEXT_DIAG_B == <<60, 82, 111, 111, 116, 32, 82, 73, 100, 83, 108, 111, 116, 115, 61, 34, 50, 34, 32, 67, 104, 97, 110, 110, 101, 108, 73, 110, 102, 111, 61, 34, 65, 76, 73, 68, 34, 62, 60, 77, 101, 109, 98, 101, 114, 32, 73, 68, 61, 34, 49, 34, 32, 78, 97, 109, 101, 61, 34, 69, 110, 97, 98, 108, 101, 34, 32, 82, 73, 68, 61, 34, 48, 120, 48, 50, 48, 48, 48, 48, 48, 49, 34, 32, 76, 73, 68, 61, 34, 53, 34, 32, 47, 62, 60, 77, 101, 109, 98, 101, 114, 32, 73, 68, 61, 34, 50, 34, 32, 78, 97, 109, 101, 61, 34, 83, 112, 101, 101, 100, 34, 32, 82, 73, 68, 61, 34, 48, 120, 48, 50, 48, 48, 48, 48, 48, 52, 34, 32, 76, 73, 68, 61, 34, 54, 34, 32, 47, 62, 60, 47, 82, 111, 111, 116, 62>>

\* the page lists of the PLF files of the model
PlfPages == <<
    <<Pad(TEXT_FW)>>,
    <<Pad(LIT_FW_V21)>>,
    <<TEXT_FW>>,
    <<Pad(TEXT_MAXBLOCKS_BAD)>>,
    <<Pad(TEXT_ENABLE)>>,
    <<Pad(TEXT_ENABLE), Pad(TEXT_ENABLE)>>,
    <<Pad(TEXT_NESTED)>>,
    <<Pad(TEXT_TYPES)>>,
    <<PadTo(TEXT_META, 10001), Pad(TEXT_DEVICE), Pad(TEXT_CPU), TEXT_LIBRARY, Pad(TEXT_ENABLE)>>,
    <<>>,
    <<Pad(LIT_FW_V21), Pad(TEXT_CPU), Pad(TEXT_FW), Pad(TEXT_DEVICE)>>,
    <<Pad(TEXT_DEVICE2), Pad(TEXT_CPU)>>,
    <<Pad(TEXT_DIAG_A), Pad(TEXT_DIAG_B), Pad(TEXT_DIAG_A)>>,
    <<Pad(TEXT_SIX_A), Pad(TEXT_SIX_B)>>,
    <<Pad(TEXT_CPU), TEXT_DEVICE>>
>>

NoPlf == [exists |-> FALSE, pages |-> <<>>, bytes |-> <<>>]

PlfFile(f) == [exists |-> TRUE, pages |-> PlfPages[f], bytes |-> PlfBytes(PlfPages[f])]

NoAp == [kind |-> "absent", name |-> <<>>, version |-> <<>>, stem |-> <<>>]

ApFiles ==
    {NoAp,
     [kind |-> "xml", name |-> NAME_DEMO, version |-> NAME_V14, stem |-> NAME_DEMO],
     [kind |-> "malformed", name |-> <<>>, version |-> <<>>, stem |-> NAME_DEMO]}

NoXref == [exists |-> FALSE, tables |-> <<>>, fails |-> 0]

XrefFiles ==
    {NoXref,
     [exists |-> TRUE, tables |-> <<<<NAME_TABLE_A, 3>>, <<NAME_TABLE_B, 0>>>>, fails |-> 0],
     [exists |-> TRUE, tables |-> <<<<NAME_TABLE_A, 3>>, <<NAME_TABLE_B, 0>>>>, fails |-> 2]}

\* every PLF file on its own, every .ap and XRef.db combination without a
\* PLF, one directory that has all three, and a path that does not exist
\* (present = FALSE): Path.glob finds nothing there and Path.exists is False
Disks ==
    {[present |-> TRUE, ap |-> NoAp, plf |-> PlfFile(f), xref |-> NoXref] : f \in 1..Len(PlfPages)}
      \cup {[present |-> TRUE, ap |-> a, plf |-> NoPlf, xref |-> x] : a \in ApFiles, x \in XrefFiles}
      \cup {[present |-> TRUE, ap |-> a, plf |-> PlfFile(9), xref |-> x] :
              a \in ApFiles \ {NoAp}, x \in {y \in XrefFiles : y.exists /\ y.fails = 0}}
      \cup {[present |-> FALSE, ap |-> NoAp, plf |-> NoPlf, xref |-> NoXref]}

-----------------------------------------------------------------------------
(* The reader, one call of read() per step, over every project directory   *)
(* of Disks.  At most MaxReads calls are made in one behaviour.             *)

MaxReads == 2

ReadInit ==
    /\ mode = "read"
    /\ disk \in Disks
    /\ data = <<>>
    /\ zlib_blocks = <<>>
    /\ returned = <<>>
    /\ parts = <<>> /\ i = 0 /\ strings = <<>> /\ pc = "idle" /\ last = NoIteration
    /\ tags = <<>> /\ parsed = FALSE

\* reader.read() on the current reader; `prior` notes how many segments
\* the reader held when the call began
Read ==
    /\ mode = "read"
    /\ Len(returned) < MaxReads
    /\ \E r \in {ReadProject(disk, data, zlib_blocks)} :
           /\ data' = r.plf_data
           /\ zlib_blocks' = r.zlib_blocks
           /\ returned' = Append(returned, [raised |-> r.raised, info |-> r.info,
                                            prior |-> Len(zlib_blocks)])
    /\ UNCHANGED <<mode, parts, i, strings, pc, last, disk, tags, parsed>>

\* TiaProjectReader(project_path): the next call is made on a new reader
NewReader ==
    /\ mode = "read"
    /\ data' = <<>>
    /\ zlib_blocks' = <<>>
    /\ UNCHANGED <<mode, parts, i, strings, pc, last, disk, returned, tags, parsed>>

ReadNext == Read \/ NewReader

SpecRead == ReadInit /\ [][ReadNext]_vars

-----------------------------------------------------------------------------
(* The tag exporter, one call of parse() per step, at most MaxParses calls  *)
(* in one behaviour.                                                        *)

MaxParses == 3

ExportInit ==
    /\ mode = "export"
    /\ disk \in Disks
    /\ tags = <<>>
    /\ parsed = FALSE
    /\ returned = <<>>
    /\ parts = <<>> /\ i = 0 /\ strings = <<>> /\ pc = "idle" /\ last = NoIteration
    /\ data = <<>> /\ zlib_blocks = <<>>

\* exporter.parse() on the current exporter
Parse ==
    /\ mode = "export"
    /\ Len(returned) < MaxParses
    /\ \E r \in {ParseProject(disk, tags, parsed)} :
           /\ tags' = r.tags
           /\ parsed' = r.parsed
           /\ returned' = Append(returned, [raised |-> r.raised,
                                            tags |-> IF r.raised THEN <<>> ELSE r.tags])
    /\ UNCHANGED <<mode, parts, data, i, zlib_blocks, strings, pc, last, disk>>

\* TiaTagExporter(project_path): the next call is made on a new exporter
NewExporter ==
    /\ mode = "export"
    /\ tags' = <<>>
    /\ parsed' = FALSE
    /\ UNCHANGED <<mode, parts, data, i, zlib_blocks, strings, pc, last, disk, returned>>

ExportNext == Parse \/ NewExporter

SpecExport == ExportInit /\ [][ExportNext]_vars

-----------------------------------------------------------------------------
(* Properties of read().                                                    *)

\* the decoded text of page p of the PLF file
PageText(p) == Utf8DecodeReplace(disk.plf.pages[p])

FirstFiveNames(members) == [k \in 1..Min(Len(members), 5) |-> members[k].name]

\* C6: in every ProjectInfo that read() returns, no two ProgramBlocks of
\* info.blocks have the same block name and the same first five member
\* names: a later segment that repeats an earlier one adds no ProgramBlock.
C6_Dedup ==
    mode = "read" =>
      \A r \in 1..Len(returned) :
        ~returned[r].raised =>
          LET blocks == returned[r].info.blocks
          IN  \A a, b \in 1..Len(blocks) :
                a < b => ~ /\ blocks[a].name = blocks[b].name
                           /\ FirstFiveNames(blocks[a].members) = FirstFiveNames(blocks[b].members)

\* C7: all calls of read() on the same project directory, on one reader or
\* on a new one, return equal ProjectInfo values, and a reader that is read
\* again holds as many segments as before the call.
C7_Idempotent ==
    mode = "read" =>
      /\ \A a, b \in 1..Len(returned) :
           (~returned[a].raised /\ ~returned[b].raised) => returned[a].info = returned[b].info
      /\ (/\ Len(returned) > 0
          /\ returned[Len(returned)].prior > 0
          /\ zlib_blocks # <<>>) => Len(zlib_blocks) = returned[Len(returned)].prior

\* a second call on the same reader returned a ProjectInfo with a CPU, program
\* blocks and devices
C7_Witness ==
    /\ mode = "read"
    /\ Len(returned) = 2
    /\ returned[2].prior > 0
    /\ ~returned[1].raised /\ ~returned[2].raised
    /\ returned[2].info.cpu.present
    /\ returned[2].info.blocks # <<>>
    /\ returned[2].info.devices # <<>>

\* the file is the header and one compressed page
OnePage == disk.plf.exists /\ Len(disk.plf.pages) = 1

\* C9 as stated: when the one page of the file has at least 10 bytes and holds
\* the text Attribute Name="FwVersion" Type="String" Value="V2.1", every call
\* of read() returns a ProjectInfo whose cpu has firmware_version "V2.1".
C9_Original ==
    mode = "read" =>
      \A r \in 1..Len(returned) :
        (/\ OnePage
         /\ Len(disk.plf.pages[1]) >= MIN_SIZE
         /\ Contains(disk.plf.pages[1], LIT_FW_V21))
        => /\ ~returned[r].raised
           /\ returned[r].info.cpu.present
           /\ returned[r].info.cpu.firmware_version = VALUE_V21

\* the first <Attribute Name="FwVersion" of the page text is the element
\* <Attribute Name="FwVersion" Type="String" Value="V2.1"
FirstFwIsV21(text) ==
    \E q \in 0..Len(text) :
      /\ LitAt(text, q, <<60>> \o LIT_FW_V21)
      /\ \A j \in 0..(q - 1) : ~LitAt(text, j, LIT_ATTR_OPEN \o ATTR_FW \o <<QUOTE>>)

\* C9: when the one page of the file decompresses to exactly 4096 bytes and
\* the first FwVersion attribute element of its text is
\* <Attribute Name="FwVersion" Type="String" Value="V2.1", a call of read()
\* either raises, which it does only when the IecplMaxNumberOfBlocks value of
\* the page is no integer literal, or returns a ProjectInfo whose cpu has
\* firmware_version "V2.1"; when the page has any other length, the returned
\* ProjectInfo has no cpu.
C9_Firmware ==
    mode = "read" =>
      \A r \in 1..Len(returned) :
        /\ (/\ OnePage
            /\ Len(disk.plf.pages[1]) = PAGE_SIZE
            /\ FirstFwIsV21(PageText(1)))
           => IF returned[r].raised
              THEN ~IntLiteral(ExtractAttr(PageText(1), ATTR_MAXBLOCKS)).ok
              ELSE /\ returned[r].info.cpu.present
                   /\ returned[r].info.cpu.firmware_version = VALUE_V21
        /\ (OnePage /\ Len(disk.plf.pages[1]) # PAGE_SIZE /\ ~returned[r].raised)
           => ~returned[r].info.cpu.present

\* read() returned the firmware version of a one-page file
C9_Witness ==
    /\ mode = "read"
    /\ OnePage
    /\ Len(disk.plf.pages[1]) = PAGE_SIZE
    /\ FirstFwIsV21(PageText(1))
    /\ Len(returned) > 0
    /\ ~returned[1].raised
    /\ returned[1].info.cpu.present
    /\ returned[1].info.cpu.firmware_version = VALUE_V21

\* C10: when a page of the file holds the root interface marker and the text
\* Member ID="1" Name="Enable" RID="0x02000001" LID="5", every ProjectInfo
\* that read() returns has a member record with name "Enable" and lid 5
\* whose RID resolves to the type "Bool".
C10_EnableRecord ==
    mode = "read" =>
      \A r \in 1..Len(returned) :
        (/\ ~returned[r].raised
         /\ \E p \in 1..Len(disk.plf.pages) :
              /\ Len(disk.plf.pages[p]) >= MIN_SIZE
              /\ Contains(disk.plf.pages[p], LIT_ROOT)
              /\ Contains(disk.plf.pages[p], LIT_ENABLE))
        => \E b \in 1..Len(returned[r].info.blocks) :
             \E m \in 1..Len(returned[r].info.blocks[b].members) :
               LET rec == returned[r].info.blocks[b].members[m]
               IN  /\ rec.name = NAME_ENABLE
                   /\ rec.lid = 5
                   /\ ResolveType(Lower(rec.rid), rec.rid) = NAME_BOOL

-----------------------------------------------------------------------------
(* Properties of parse().                                                   *)

\* the member elements of all pages of the PLF file, as the pattern of
\* _parse_members_xml matches them
SourceMatches ==
    Concat([p \in 1..Len(disk.plf.pages) |-> TagMatchesFrom(PageText(p), 0)])

\* C8 as stated: the data type of every exported member is the table name of
\* its RID when the RID is in RID_TYPE_MAP, and the RID itself when not.
C8_Original ==
    mode = "export" =>
      \A k \in 1..Len(tags) :
        tags[k].data_type = IF RidInMap(tags[k].rid) THEN RidTypeName(tags[k].rid)
                            ELSE tags[k].rid

\* C8: every exported member comes from a member element of a page; its rid
\* is the lowercased RID of the element, and its data type is the Type
\* attribute of the element when it has one, else the table name of the
\* lowercased RID when that is in RID_TYPE_MAP, else the lowercased RID.
C8_Resolved ==
    mode = "export" =>
      \A k \in 1..Len(tags) :
        \E m \in {SourceMatches[j] : j \in 1..Len(SourceMatches)} :
          /\ tags[k].name = m.name
          /\ tags[k].member_id = ParseInt(m.id)
          /\ tags[k].rid = Lower(m.rid)
          /\ tags[k].data_type =
               IF m.type # <<>> THEN m.type
               ELSE IF RidInMap(Lower(m.rid)) THEN RidTypeName(Lower(m.rid))
               ELSE Lower(m.rid)

\* parse() exported a member typed by the table, one typed by its Type
\* attribute, and one whose RID is not in the table and was not written in
\* lowercase
C8_Witness ==
    /\ mode = "export"
    /\ parsed
    /\ \E a, b, c \in 1..Len(tags) :
         /\ RidInMap(tags[a].rid) /\ tags[a].data_type = RidTypeName(tags[a].rid)
         /\ RidInMap(tags[b].rid) /\ tags[b].data_type # RidTypeName(tags[b].rid)
         /\ ~RidInMap(tags[c].rid) /\ tags[c].data_type = tags[c].rid
         /\ \E m \in {SourceMatches[j] : j \in 1..Len(SourceMatches)} :
              Lower(m.rid) = tags[c].rid /\ m.rid # tags[c].rid

-----------------------------------------------------------------------------
(* Error handling of read().                                                *)

\* C11: a segment that one extractor cannot parse costs only that segment's
\* contribution: every call of read() returns a ProjectInfo, none raises.
C11_Degrade ==
    mode = "read" => \A r \in 1..Len(returned) : ~returned[r].raised

\* C12: when a query on XRef.db fails, also after some tables were counted,
\* the table statistics of the ProjectInfo that read() returns are empty.
C12_XrefEmptyOnError ==
    mode = "read" =>
      \A r \in 1..Len(returned) :
        (disk.xref.exists /\ disk.xref.fails > 0 /\ ~returned[r].raised)
        => returned[r].info.xref_tables = <<>>

\* __main__ (lines 565-575) with a path argument: the exit status after a
\* call of read() that raised (the traceback ends the process) or returned
ExitStatus(res) == IF res.raised THEN 1 ELSE 0

\* C13: for a project path that does not exist, the caller is told: read()
\* raises or the process ends with a non-zero exit status.
C13_MissingDirectoryTold ==
    mode = "read" =>
      \A r \in 1..Len(returned) : ~disk.present => ExitStatus(returned[r]) # 0

-----------------------------------------------------------------------------
(* TiaProjectReader._parse_plf_header                                       *)

HEADER_SIZE == 64

\* struct.unpack_from("<I", data, off)[0] read most significant byte first
U32_be(d, off) ==
    d[off + 4] + 256 * d[off + 3] + 65536 * d[off + 2] + 16777216 * d[off + 1]

\* struct.unpack_from("<I", data, off)[0]
U32(d, off) ==
    d[off + 1] + 256 * d[off + 2] + 65536 * d[off + 3] + 16777216 * d[off + 4]

PlfHeader(header_size, version, guid, data_size, entry_count, block_count) ==
    [header_size |-> header_size, version |-> version, guid |-> guid,
     data_size |-> data_size, entry_count |-> entry_count, block_count |-> block_count]

\* _parse_plf_header() on a reader whose self._plf_data is d
ParsePlfHeader(d) ==
    IF Len(d) < HEADER_SIZE THEN PlfHeader(0, 0, <<>>, 0, 0, 0)
    ELSE PlfHeader(U32(d, 0), U32(d, 4), Slice(d, 8, 24), U32(d, 24), U32(d, 28), U32(d, 32))

\* Buffers around the header size: byte k (0-based) of pattern <<a, b>> is
\* (a * k + b) % 128, so that every field stays below 2^31.
HeaderSlack == 2

HeaderLens == {0} \cup ((HEADER_SIZE - HeaderSlack)..(HEADER_SIZE + HeaderSlack))

HeaderPatterns == {0, 1, 3, 7} \X {0, 5, 100}

HeaderBuffer(n, pat) == [k \in 1..n |-> (pat[1] * (k - 1) + pat[2]) % 128]

MaxHeaderCalls == 2

HeaderInit ==
    /\ mode = "header"
    /\ \E n \in HeaderLens, pat \in HeaderPatterns :
         /\ disk = [bytes |-> HeaderBuffer(n, pat)]
         /\ data = HeaderBuffer(n, pat)
    /\ zlib_blocks = <<>>
    /\ returned = <<>>
    /\ parts = <<>> /\ i = 0 /\ strings = <<>> /\ pc = "idle" /\ last = NoIteration
    /\ tags = <<>> /\ parsed = FALSE

\* reader._parse_plf_header() on a reader that has loaded the buffer
ParseHeader ==
    /\ mode = "header"
    /\ Len(returned) < MaxHeaderCalls
    /\ returned' = Append(returned, ParsePlfHeader(data))
    /\ UNCHANGED <<mode, parts, data, i, zlib_blocks, strings, pc, last, disk, tags, parsed>>

HeaderNext == ParseHeader

SpecHeader == HeaderInit /\ [][HeaderNext]_vars

\* byte number n (0 the least significant) of the value v
ByteOf(v, n) == (v \div (256 ^ n)) % 256

\* the four bytes of the buffer at off are the bytes of v, least significant first
IsLittleEndianAt(d, off, v) ==
    /\ v >= 0
    /\ v < 2147483647
    /\ \A n \in 0..3 : ByteOf(v, n) = d[off + n + 1]

\* C14: _parse_plf_header returns a header for every buffer: for a buffer
\* shorter than 64 bytes all numeric fields are zero; for a buffer of 64
\* bytes or more the numeric fields are the little-endian 32-bit values at
\* offsets 0, 4, 24, 28 and 32 and the identifier is bytes 8..23; the
\* reader's buffer and segment list are as before the call.
C14_Header ==
    mode = "header" =>
      /\ data = disk.bytes
      /\ zlib_blocks = <<>>
      /\ \A r \in 1..Len(returned) :
           LET h == returned[r]
           IN  IF Len(data) < 64
               THEN /\ h.header_size = 0 /\ h.version = 0 /\ h.data_size = 0
                    /\ h.entry_count = 0 /\ h.block_count = 0
               ELSE /\ IsLittleEndianAt(data, 0, h.header_size)
                    /\ IsLittleEndianAt(data, 4, h.version)
                    /\ IsLittleEndianAt(data, 24, h.data_size)
                    /\ IsLittleEndianAt(data, 28, h.entry_count)
                    /\ IsLittleEndianAt(data, 32, h.block_count)
                    /\ Len(h.guid) = 16
                    /\ \A k \in 1..16 : h.guid[k] = data[8 + k]

\* a header was read from a buffer of more than 64 bytes whose fields differ
\* from each other and span several bytes
C14_Witness ==
    /\ mode = "header"
    /\ Len(data) > 64
    /\ Len(returned) = 2
    /\ returned[1].header_size > 65536
    /\ returned[1].header_size # returned[1].version
    /\ returned[1].data_size # returned[1].block_count

-----------------------------------------------------------------------------
(* The CPU record.                                                          *)

\* page p of the file has the page size and one of the two markers of
\* lines 395-399
CpuMarked(p) ==
    /\ Len(disk.plf.pages[p]) = PAGE_SIZE
    /\ \/ Contains(disk.plf.pages[p], LIT_ATTR_FW)
       \/ Contains(disk.plf.pages[p], LIT_NAME_SUBTYPE)

\* page p is marked and a FwVersion or Subtype value can be read from it
CpuYielding(p) ==
    /\ CpuMarked(p)
    /\ \/ ExtractAttr(PageText(p), ATTR_FW) # <<>>
       \/ ExtractAttr(PageText(p), ATTR_SUBTYPE) # <<>>

\* page p as a segment on its own
PageSegment(p) == [data |-> disk.plf.pages[p], size |-> Len(disk.plf.pages[p])]

-----------------------------------------------------------------------------
(* ProjectInfo.summary                                                      *)

\* '  TIA Project: '
SUM_PROJECT == <<32, 32, 84, 73, 65, 32, 80, 114, 111, 106, 101, 99, 116, 58, 32>>

\* '  TIA Portal Version: '
SUM_VERSION == <<32, 32, 84, 73, 65, 32, 80, 111, 114, 116, 97, 108, 32, 86, 101, 114, 115, 105, 111, 110, 58, 32>>

\* '  Station: '
SUM_STATION == <<32, 32, 83, 116, 97, 116, 105, 111, 110, 58, 32>>

\* '  CPU: '
SUM_CPU == <<32, 32, 67, 80, 85, 58, 32>>

\* '    Order Number: '
SUM_ORDER == <<32, 32, 32, 32, 79, 114, 100, 101, 114, 32, 78, 117, 109, 98, 101, 114, 58, 32>>

\* '    Firmware: '
SUM_FIRMWARE == <<32, 32, 32, 32, 70, 105, 114, 109, 119, 97, 114, 101, 58, 32>>

\* '    Subtype: '
SUM_SUBTYPE == <<32, 32, 32, 32, 83, 117, 98, 116, 121, 112, 101, 58, 32>>

\* '    Max Blocks: '
SUM_MAXBLOCKS == <<32, 32, 32, 32, 77, 97, 120, 32, 66, 108, 111, 99, 107, 115, 58, 32>>

\* '    Languages: '
SUM_LANGUAGES == <<32, 32, 32, 32, 76, 97, 110, 103, 117, 97, 103, 101, 115, 58, 32>>

\* '\n  Hardware Components ('
SUM_HARDWARE == <<10, 32, 32, 72, 97, 114, 100, 119, 97, 114, 101, 32, 67, 111, 109, 112, 111, 110, 101, 110, 116, 115, 32, 40>>

\* '\n  Libraries ('
SUM_LIBRARIES == <<10, 32, 32, 76, 105, 98, 114, 97, 114, 105, 101, 115, 32, 40>>

\* '\n  MetaInfo Packages ('
SUM_PACKAGES == <<10, 32, 32, 77, 101, 116, 97, 73, 110, 102, 111, 32, 80, 97, 99, 107, 97, 103, 101, 115, 32, 40>>

\* '\n  Program Blocks ('
SUM_BLOCKS == <<10, 32, 32, 80, 114, 111, 103, 114, 97, 109, 32, 66, 108, 111, 99, 107, 115, 32, 40>>

\* '\n  Timestamps: '
SUM_TIMESTAMPS == <<10, 32, 32, 84, 105, 109, 101, 115, 116, 97, 109, 112, 115, 58, 32>>

\* '\n  XRef Database:'
SUM_XREF == <<10, 32, 32, 88, 82, 101, 102, 32, 68, 97, 116, 97, 98, 97, 115, 101, 58>>

\* '):'
SUM_COUNT_END == <<41, 58>>

\* '    - '
SUM_ITEM == <<32, 32, 32, 32, 45, 32>>

\* ' (Role: '
SUM_ROLE == <<32, 40, 82, 111, 108, 101, 58, 32>>

\* ' members)'
SUM_MEMBERS == <<32, 109, 101, 109, 98, 101, 114, 115, 41>>

\* ' rows'
SUM_ROWS == <<32, 114, 111, 119, 115>>

\* ' ... '
SUM_DOTS == <<32, 46, 46, 46, 32>>

\* str(n) of an int
RECURSIVE Str(_)
Str(n) ==
    IF n < 0 THEN <<45>> \o Str(0 - n)
    ELSE IF n < 10 THEN <<48 + n>>
    ELSE Str(n \div 10) \o <<48 + (n % 10)>>

\* '=' * 60
Rule == [k \in 1..60 |-> 61]

\* the list `lines` with the library section appended before the device section
SummaryLines_swapped(info) ==
    <<Rule, SUM_PROJECT \o info.name, SUM_VERSION \o info.tia_version, Rule, <<>>>>
      \o (IF info.station_name # <<>> THEN <<SUM_STATION \o info.station_name>> ELSE <<>>)
      \o (IF info.cpu.present
          THEN <<SUM_CPU \o info.cpu.name,
                 SUM_ORDER \o info.cpu.order_number,
                 SUM_FIRMWARE \o info.cpu.firmware_version,
                 SUM_SUBTYPE \o info.cpu.subtype,
                 SUM_MAXBLOCKS \o Str(info.cpu.max_blocks),
                 SUM_LANGUAGES \o info.cpu.supported_languages>>
          ELSE <<>>)
      \o (IF info.libraries # <<>>
          THEN <<SUM_LIBRARIES \o Str(Len(info.libraries)) \o SUM_COUNT_END>>
                 \o [k \in 1..Len(info.libraries) |->
                       SUM_ITEM \o info.libraries[k].guid \o <<32, 32>>
                         \o info.libraries[k].display_version]
          ELSE <<>>)
      \o (IF info.devices # <<>>
          THEN <<SUM_HARDWARE \o Str(Len(info.devices)) \o SUM_COUNT_END>>
                 \o [k \in 1..Len(info.devices) |->
                       SUM_ITEM \o info.devices[k].name \o SUM_ROLE \o info.devices[k].role
                         \o <<41>>
                         \o (IF info.devices[k].order_number # <<>>
                             THEN <<32, 91>> \o info.devices[k].order_number \o <<93>>
                             ELSE <<>>)]
          ELSE <<>>)
      \o (IF info.meta_packages # <<>>
          THEN <<SUM_PACKAGES \o Str(Len(info.meta_packages)) \o SUM_COUNT_END>>
                 \o [k \in 1..Len(info.meta_packages) |-> SUM_ITEM \o info.meta_packages[k]]
          ELSE <<>>)
      \o (IF info.blocks # <<>>
          THEN <<SUM_BLOCKS \o Str(Len(info.blocks)) \o SUM_COUNT_END>>
                 \o [k \in 1..Len(info.blocks) |->
                       SUM_ITEM \o info.blocks[k].name \o <<32, 40>>
                         \o info.blocks[k].block_type \o <<44, 32>>
                         \o Str(Len(info.blocks[k].members)) \o SUM_MEMBERS]
          ELSE <<>>)
      \o (IF info.timestamps # <<>>
          THEN <<SUM_TIMESTAMPS \o info.timestamps[1] \o SUM_DOTS
                   \o info.timestamps[Len(info.timestamps)]>>
          ELSE <<>>)
      \o (IF info.xref_tables # <<>>
          THEN <<SUM_XREF>>
                 \o [k \in 1..Len(info.xref_tables) |->
                       SUM_ITEM \o info.xref_tables[k][1] \o <<58, 32>>
                         \o Str(info.xref_tables[k][2]) \o SUM_ROWS]
          ELSE <<>>)
      \o << <<>> >>

\* the list `lines` built at lines 93-134: the header, then one group of lines
\* for each field that is truthy
SummaryLines(info) ==
    <<Rule, SUM_PROJECT \o info.name, SUM_VERSION \o info.tia_version, Rule, <<>>>>
      \o (IF info.station_name # <<>> THEN <<SUM_STATION \o info.station_name>> ELSE <<>>)
      \o (IF info.cpu.present
          THEN <<SUM_CPU \o info.cpu.name,
                 SUM_ORDER \o info.cpu.order_number,
                 SUM_FIRMWARE \o info.cpu.firmware_version,
                 SUM_SUBTYPE \o info.cpu.subtype,
                 SUM_MAXBLOCKS \o Str(info.cpu.max_blocks),
                 SUM_LANGUAGES \o info.cpu.supported_languages>>
          ELSE <<>>)
      \o (IF info.devices # <<>>
          THEN <<SUM_HARDWARE \o Str(Len(info.devices)) \o SUM_COUNT_END>>
                 \o [k \in 1..Len(info.devices) |->
                       SUM_ITEM \o info.devices[k].name \o SUM_ROLE \o info.devices[k].role
                         \o <<41>>
                         \o (IF info.devices[k].order_number # <<>>
                             THEN <<32, 91>> \o info.devices[k].order_number \o <<93>>
                             ELSE <<>>)]
          ELSE <<>>)
      \o (IF info.libraries # <<>>
          THEN <<SUM_LIBRARIES \o Str(Len(info.libraries)) \o SUM_COUNT_END>>
                 \o [k \in 1..Len(info.libraries) |->
                       SUM_ITEM \o info.libraries[k].guid \o <<32, 32>>
                         \o info.libraries[k].display_version]
          ELSE <<>>)
      \o (IF info.meta_packages # <<>>
          THEN <<SUM_PACKAGES \o Str(Len(info.meta_packages)) \o SUM_COUNT_END>>
                 \o [k \in 1..Len(info.meta_packages) |-> SUM_ITEM \o info.meta_packages[k]]
          ELSE <<>>)
      \o (IF info.blocks # <<>>
          THEN <<SUM_BLOCKS \o Str(Len(info.blocks)) \o SUM_COUNT_END>>
                 \o [k \in 1..Len(info.blocks) |->
                       SUM_ITEM \o info.blocks[k].name \o <<32, 40>>
                         \o info.blocks[k].block_type \o <<44, 32>>
                         \o Str(Len(info.blocks[k].members)) \o SUM_MEMBERS]
          ELSE <<>>)
      \o (IF info.timestamps # <<>>
          THEN <<SUM_TIMESTAMPS \o info.timestamps[1] \o SUM_DOTS
                   \o info.timestamps[Len(info.timestamps)]>>
          ELSE <<>>)
      \o (IF info.xref_tables # <<>>
          THEN <<SUM_XREF>>
                 \o [k \in 1..Len(info.xref_tables) |->
                       SUM_ITEM \o info.xref_tables[k][1] \o <<58, 32>>
                         \o Str(info.xref_tables[k][2]) \o SUM_ROWS]
          ELSE <<>>)
      \o << <<>> >>

\* summary(): "\n".join(lines)
Summary(info) == JoinWith(SummaryLines(info), <<10>>)



\* 'Demo'
SAMPLE_PROJECT == <<68, 101, 109, 111>>

\* 'V14'
SAMPLE_VERSION == <<86, 49, 52>>

\* 'Station_1/PLC'
SAMPLE_STATION == <<83, 116, 97, 116, 105, 111, 110, 95, 49, 47, 80, 76, 67>>

\* 'CPU 1214C'
SAMPLE_CPU == <<67, 80, 85, 32, 49, 50, 49, 52, 67>>

\* '6ES7 214-1AG40-0XB0'
SAMPLE_ORDER == <<54, 69, 83, 55, 32, 50, 49, 52, 45, 49, 65, 71, 52, 48, 45, 48, 88, 66, 48>>

\* 'V4.2'
SAMPLE_FW == <<86, 52, 46, 50>>

\* 'S71200'
SAMPLE_SUBTYPE == <<83, 55, 49, 50, 48, 48>>

\* 'LAD, FBD, SCL'
SAMPLE_LANGS == <<76, 65, 68, 44, 32, 70, 66, 68, 44, 32, 83, 67, 76>>

\* 'CPU'
SAMPLE_ROLE == <<67, 80, 85>>

\* 'DI 16'
SAMPLE_IO == <<68, 73, 32, 49, 54>>

\* '0a1b2c3d'
SAMPLE_GUID == <<48, 97, 49, 98, 50, 99, 51, 100>>

\* 'V1.2'
SAMPLE_LIBVER == <<86, 49, 46, 50>>

\* 'Siemens.Simatic.Hw'
SAMPLE_PACKAGE == <<83, 105, 101, 109, 101, 110, 115, 46, 83, 105, 109, 97, 116, 105, 99, 46, 72, 119>>

\* 'F_TRIG'
SAMPLE_BLOCK == <<70, 95, 84, 82, 73, 71>>

\* 'FB'
SAMPLE_FB == <<70, 66>>

\* '3/14/2019 9:26:53 AM'
SAMPLE_TIME1 == <<51, 47, 49, 52, 47, 50, 48, 49, 57, 32, 57, 58, 50, 54, 58, 53, 51, 32, 65, 77>>

\* '4/01/2019 1:00:00 PM'
SAMPLE_TIME2 == <<52, 47, 48, 49, 47, 50, 48, 49, 57, 32, 49, 58, 48, 48, 58, 48, 48, 32, 80, 77>>

\* the ProjectInfo objects summary() is applied to: every field either empty
\* or filled
SummaryInfos ==
    { [name |-> SAMPLE_PROJECT, tia_version |-> SAMPLE_VERSION, station_name |-> st,
       cpu |-> c, devices |-> d, libraries |-> l, meta_packages |-> m, blocks |-> b,
       timestamps |-> t, xref_tables |-> x] :
        st \in {<<>>, SAMPLE_STATION},
        c \in {NoCpu,
               [present |-> TRUE, name |-> SAMPLE_CPU, order_number |-> SAMPLE_ORDER,
                firmware_version |-> SAMPLE_FW, subtype |-> SAMPLE_SUBTYPE,
                description |-> <<>>, max_blocks |-> 1024,
                supported_languages |-> SAMPLE_LANGS]},
        d \in {<<>>,
               <<[name |-> SAMPLE_CPU, role |-> SAMPLE_ROLE, template |-> <<>>,
                  object_id |-> <<>>, order_number |-> SAMPLE_ORDER,
                  manufacturer |-> <<>>, description |-> <<>>],
                 [name |-> SAMPLE_IO, role |-> <<>>, template |-> <<>>,
                  object_id |-> <<>>, order_number |-> <<>>,
                  manufacturer |-> <<>>, description |-> <<>>]>>},
        l \in {<<>>, <<[guid |-> SAMPLE_GUID, display_version |-> SAMPLE_LIBVER]>>},
        m \in {<<>>, <<SAMPLE_PACKAGE>>},
        b \in {<<>>, <<[name |-> SAMPLE_BLOCK, block_type |-> SAMPLE_FB, members |-> <<>>]>>},
        t \in {<<>>, <<SAMPLE_TIME1, SAMPLE_TIME2>>},
        x \in {<<>>, <<<<NAME_TABLE_A, 3>>, <<NAME_TABLE_B, 0>>>>} }

MaxSummaryCalls == 1

SummaryInit ==
    /\ mode = "summary"
    /\ disk \in {[info |-> info] : info \in SummaryInfos}
    /\ returned = <<>>
    /\ data = <<>> /\ zlib_blocks = <<>>
    /\ parts = <<>> /\ i = 0 /\ strings = <<>> /\ pc = "idle" /\ last = NoIteration
    /\ tags = <<>> /\ parsed = FALSE

\* info.summary()
Summarize ==
    /\ mode = "summary"
    /\ Len(returned) < MaxSummaryCalls
    /\ returned' = Append(returned, Summary(disk.info))
    /\ UNCHANGED <<mode, parts, data, i, zlib_blocks, strings, pc, last, disk, tags, parsed>>

SummaryNext == Summarize

SpecSummary == SummaryInit /\ [][SummaryNext]_vars

\* the text that opens each section, in the order the specification lists them
SectionHeads ==
    <<SUM_STATION, SUM_CPU, SUM_HARDWARE, SUM_LIBRARIES, SUM_PACKAGES, SUM_BLOCKS,
      SUM_TIMESTAMPS, SUM_XREF>>

\* whether the field behind section s of info is non-empty
SectionFilled(info, s) ==
    <<info.station_name # <<>>, info.cpu.present, info.devices # <<>>,
      info.libraries # <<>>, info.meta_packages # <<>>, info.blocks # <<>>,
      info.timestamps # <<>>, info.xref_tables # <<>>>>[s]

\* offset of the line that opens section s in text, -1 if there is none
SectionAt(text, s) ==
    FirstWhere(0, Len(text), LAMBDA k : LitAt(text, k, <<10>> \o SectionHeads[s]))

\* C16: the text summary() returns opens with the header, holds the section of
\* a field exactly when the field is non-empty, and holds the sections in the
\* order station, CPU, devices, libraries, packages, blocks, timestamps,
\* relational tables
C16_SummaryOrder ==
    mode = "summary" =>
      \A r \in 1..Len(returned) :
        /\ LitAt(returned[r], 0, Rule \o <<10>> \o SUM_PROJECT)
        /\ \A s \in 1..8 : (SectionAt(returned[r], s) # -1) <=> SectionFilled(disk.info, s)
        /\ \A s, t \in 1..8 :
             (s < t /\ SectionFilled(disk.info, s) /\ SectionFilled(disk.info, t))
               => SectionAt(returned[r], s) < SectionAt(returned[r], t)

C16_Witness ==
    /\ mode = "summary"
    /\ returned # <<>>
    /\ disk.info.devices # <<>> /\ disk.info.libraries # <<>> /\ disk.info.xref_tables # <<>>
    /\ disk.info.station_name = <<>> /\ disk.info.blocks = <<>>
    /\ SectionAt(returned[1], 3) # -1 /\ SectionAt(returned[1], 6) = -1

\* C17: the CpuInfo that read() returns is the one the CPU extractor computes
\* from the segment list alone, whatever the device extractor produced
C17_CpuIndependent ==
    mode = "read" =>
      \A r \in 1..Len(returned) :
        (disk.plf.exists /\ returned[r].prior = 0 /\ ~returned[r].raised)
          => \E segs \in {ExtractZlibBlocks(disk.plf.bytes, <<>>)} :
               returned[r].info.cpu = ParseCpuAttributes(segs, segs, <<>>).cpu

-----------------------------------------------------------------------------
(* Properties of the scanner loop                                           *)

\* C18: whenever the scanner records a segment, the decompressor reached the
\* end of the stream at that position, and the recorded compressed length is
\* the number of bytes from the offset up to that point
C18_EndOfStream ==
    (mode = "scan" /\ last.outcome = "accepted") =>
      \E r \in {Inflate(From(data, last.pos))} :
        /\ r.eof
        /\ zlib_blocks[Len(zlib_blocks)].comp_size = Len(From(data, last.pos)) - r.unused

\* the scanner has finished and its cursor went past position len(data) - 2
C19_Original ==
    (mode = "scan" /\ pc = "done" /\ Len(data) >= 2) => i > Len(data) - 2

\* C19: the scanner tests the signature at every position from 0 to
\* len(data) - 3 that is not inside an accepted segment, and at no later one:
\* the first iteration is at 0, the iteration after a rejected position p is at
\* p + 1, the one after an accepted position is at the end of its segment, no
\* iteration is at a position behind len(data) - 3, and the loop ends only
\* with the cursor at len(data) - 2 or behind it
C19_TestedPositions ==
    mode = "scan" =>
      /\ last.pos = -1 => i = 0
      /\ last.pos # -1 =>
           /\ last.pos <= Len(data) - 3
           /\ last.outcome = "accepted"
                => i = last.pos + zlib_blocks[Len(zlib_blocks)].comp_size
           /\ last.outcome # "accepted" => i = last.pos + 1
      /\ (pc = "done" /\ Len(data) >= 2) => i >= Len(data) - 2

\* the scan has ended in front of a signature at len(data) - 2
C19_Witness ==
    /\ mode = "scan" /\ pc = "done"
    /\ Len(data) >= 3
    /\ i = Len(data) - 2
    /\ IsSignature(data, Len(data) - 2)
    /\ last.pos = Len(data) - 3

MaxFairChunks == 2

\* the chunks the termination check builds its buffers from: a plain byte,
\* the two halves of a signature, a compressed chunk, a truncated one and a
\* bare signature
FairChunkIds == {1, 2, 3, 5, 8, 9}

ScanFairInit ==
    /\ mode = "scan"
    /\ parts \in SeqsUpTo(FairChunkIds, MaxFairChunks)
    /\ data = BufferOf(parts)
    /\ i = 0
    /\ zlib_blocks = <<>>
    /\ strings = <<>>
    /\ pc = "loop"
    /\ last = NoIteration
    /\ disk = "none" /\ returned = <<>> /\ tags = <<>> /\ parsed = FALSE

\* the scanner loop, which runs without interruption until its guard fails
SpecScanFair == ScanFairInit /\ [][ScanNext]_vars /\ WF_vars(ScanNext)

\* C20: the scanner terminates: every loop iteration moves the cursor forward,
\* the cursor never passes the end of the buffer, and the loop is left
C20_Terminates ==
    /\ [](mode = "scan" => (i >= 0 /\ i <= Len(data)))
    /\ [][(pc = "loop" /\ pc' = "loop") => i' > i]_vars
    /\ <>(pc = "done")

\* the loop has ended after iterations that rejected and one that accepted
C20_Witness ==
    /\ mode = "scan" /\ pc = "done"
    /\ Len(zlib_blocks) >= 1
    /\ zlib_blocks[1].offset > 0
    /\ last.outcome = "accepted"
    /\ i >= Len(data) - 2

-----------------------------------------------------------------------------
(* _parse_members_xml applied to interface texts that are built from section *)
(* markers and members                                                      *)

\* '<Member ID="1" Name="Input" SubPartIndex="0">'
PIECE_INPUT == <<60, 77, 101, 109, 98, 101, 114, 32, 73, 68, 61, 34, 49, 34, 32, 78, 97, 109, 101, 61, 34, 73, 110, 112, 117, 116, 34, 32, 83, 117, 98, 80, 97, 114, 116, 73, 110, 100, 101, 120, 61, 34, 48, 34, 62>>

\* '<Member ID="2" Name="Output" SubPartIndex="1">'
PIECE_OUTPUT == <<60, 77, 101, 109, 98, 101, 114, 32, 73, 68, 61, 34, 50, 34, 32, 78, 97, 109, 101, 61, 34, 79, 117, 116, 112, 117, 116, 34, 32, 83, 117, 98, 80, 97, 114, 116, 73, 110, 100, 101, 120, 61, 34, 49, 34, 62>>

\* '<Member ID="2" Name="Output">'
PIECE_OUTPUT_BARE == <<60, 77, 101, 109, 98, 101, 114, 32, 73, 68, 61, 34, 50, 34, 32, 78, 97, 109, 101, 61, 34, 79, 117, 116, 112, 117, 116, 34, 62>>

\* '<Member ID="4" Name="Static" SubPartIndex="3">'
PIECE_STATIC == <<60, 77, 101, 109, 98, 101, 114, 32, 73, 68, 61, 34, 52, 34, 32, 78, 97, 109, 101, 61, 34, 83, 116, 97, 116, 105, 99, 34, 32, 83, 117, 98, 80, 97, 114, 116, 73, 110, 100, 101, 120, 61, 34, 51, 34, 62>>

\* '<Member ID="10" Name="Enable" RID="0x02000001" />'
PIECE_ENABLE == <<60, 77, 101, 109, 98, 101, 114, 32, 73, 68, 61, 34, 49, 48, 34, 32, 78, 97, 109, 101, 61, 34, 69, 110, 97, 98, 108, 101, 34, 32, 82, 73, 68, 61, 34, 48, 120, 48, 50, 48, 48, 48, 48, 48, 49, 34, 32, 47, 62>>

\* '<Member ID="11" Name="Speed" RID="0x02000004" />'
PIECE_SPEED == <<60, 77, 101, 109, 98, 101, 114, 32, 73, 68, 61, 34, 49, 49, 34, 32, 78, 97, 109, 101, 61, 34, 83, 112, 101, 101, 100, 34, 32, 82, 73, 68, 61, 34, 48, 120, 48, 50, 48, 48, 48, 48, 48, 52, 34, 32, 47, 62>>

\* 'Enable'
NAME_ENABLE_M == <<69, 110, 97, 98, 108, 101>>

\* 'Speed'
NAME_SPEED_M == <<83, 112, 101, 101, 100>>

\* the pieces of text: 1-4 open a section (3 without SubPartIndex), 5 and 6
\* are members
Piece(p) ==
    <<PIECE_INPUT, PIECE_OUTPUT, PIECE_OUTPUT_BARE, PIECE_STATIC, PIECE_ENABLE, PIECE_SPEED>>[p]

PieceIds == 1..6

MarkerIds == 1..4

\* the section a marker piece opens
PieceSection(p) == <<SEC_INPUT, SEC_OUTPUT, SEC_OUTPUT, SEC_STATIC>>[p]

\* the name of a member piece
PieceName(p) == IF p = 5 THEN NAME_ENABLE_M ELSE NAME_SPEED_M

MaxPieces == 4

TextOf(ps) == Concat([k \in 1..Len(ps) |-> Piece(ps[k])])

MembersInit ==
    /\ mode = "members"
    /\ parts \in SeqsUpTo(PieceIds, MaxPieces)
    /\ data = TextOf(parts)
    /\ returned = <<>>
    /\ disk = "none" /\ zlib_blocks = <<>>
    /\ i = 0 /\ strings = <<>> /\ pc = "idle" /\ last = NoIteration
    /\ tags = <<>> /\ parsed = FALSE

\* self._parse_members_xml(text, block_name)
ParseMembers ==
    /\ mode = "members"
    /\ returned = <<>>
    /\ returned' = <<ParseMembersXml(data, NAME_BLOCK)>>
    /\ UNCHANGED <<mode, parts, data, i, zlib_blocks, strings, pc, last, disk, tags, parsed>>

MembersNext == ParseMembers

SpecMembers == MembersInit /\ [][MembersNext]_vars

\* index of the last marker piece in front of piece p, 0 if there is none
MarkerBefore(p) ==
    IF \E q \in 1..(p - 1) : parts[q] \in MarkerIds
    THEN CHOOSE q \in 1..(p - 1) :
           parts[q] \in MarkerIds /\ \A x \in (q + 1)..(p - 1) : parts[x] \notin MarkerIds
    ELSE 0

\* C21: a member that stands behind a section marker, with no other marker in
\* between, is returned with the section of that marker
C21_SectionAssigned ==
    (mode = "members" /\ returned # <<>>) =>
      \A p \in 1..Len(parts) :
        (parts[p] \notin MarkerIds /\ MarkerBefore(p) # 0)
          => \E k \in 1..Len(returned[1]) :
               /\ returned[1][k].name = PieceName(parts[p])
               /\ returned[1][k].section = PieceSection(parts[MarkerBefore(p)])

\* C22: when the text holds a section marker, no member gets its section by
\* default: a member is returned as Static only if a Static marker stands in
\* the text
C22_DefaultOnlyWithoutMarkers ==
    (mode = "members" /\ returned # <<>> /\ \E q \in 1..Len(parts) : parts[q] \in MarkerIds) =>
      \A k \in 1..Len(returned[1]) :
        returned[1][k].section = SEC_STATIC
          => \E q \in 1..Len(parts) : parts[q] \in MarkerIds /\ PieceSection(parts[q]) = SEC_STATIC

\* C30: no member of the text is returned twice: the result holds as many
\* entries of a name as the text holds members of that name, at most
C30_EmittedOnce ==
    (mode = "members" /\ returned # <<>>) =>
      \A n \in {NAME_ENABLE_M, NAME_SPEED_M} :
        Cardinality({k \in 1..Len(returned[1]) : returned[1][k].name = n})
          <= Cardinality({p \in 1..Len(parts) : parts[p] \notin MarkerIds /\ PieceName(parts[p]) = n})

-----------------------------------------------------------------------------
(* _parse_hardware_catalog applied to data built from catalog entries and   *)
(* to device lists in which some devices are filled already                 *)

\* b'Siemens\tCPU 1214C\x136ES7 214-1AG40-0XB0'
ENTRY_CPU == <<83, 105, 101, 109, 101, 110, 115, 9, 67, 80, 85, 32, 49, 50, 49, 52, 67, 19, 54, 69, 83, 55, 32, 50, 49, 52, 45, 49, 65, 71, 52, 48, 45, 48, 88, 66, 48>>

\* b'Siemens\x05DI 16\x136ES7 221-1BH32-0XB0'
ENTRY_DI == <<83, 105, 101, 109, 101, 110, 115, 5, 68, 73, 32, 49, 54, 19, 54, 69, 83, 55, 32, 50, 50, 49, 45, 49, 66, 72, 51, 50, 45, 48, 88, 66, 48>>

\* b'Siemens\x05PS 25\x137XX7 000-0AA00-0AA0'
ENTRY_OTHER == <<83, 105, 101, 109, 101, 110, 115, 5, 80, 83, 32, 50, 53, 19, 55, 88, 88, 55, 32, 48, 48, 48, 45, 48, 65, 65, 48, 48, 45, 48, 65, 65, 48>>

\* b'\x02xy'
ENTRY_FILLER == <<2, 120, 121>>

\* b'CPU 1214C'
NAME_CPU_1214C == <<67, 80, 85, 32, 49, 50, 49, 52, 67>>

\* b'6ES7 214-1AG40-0XB0'
ORDER_CPU_1214C == <<54, 69, 83, 55, 32, 50, 49, 52, 45, 49, 65, 71, 52, 48, 45, 48, 88, 66, 48>>

\* b'DI 16'
NAME_DI_16 == <<68, 73, 32, 49, 54>>

\* b'6ES7 221-1BH32-0XB0'
ORDER_DI_16 == <<54, 69, 83, 55, 32, 50, 50, 49, 45, 49, 66, 72, 51, 50, 45, 48, 88, 66, 48>>

\* b'PLC_old'
NAME_PLC_OLD == <<80, 76, 67, 95, 111, 108, 100>>

\* b'6ES7 000-0AA00-0AA0'
ORDER_PLC_OLD == <<54, 69, 83, 55, 32, 48, 48, 48, 45, 48, 65, 65, 48, 48, 45, 48, 65, 65, 48>>

\* b'CPU'
ROLE_CPU == <<67, 80, 85>>

\* b'T1'
TEMPLATE_T1 == <<84, 49>>

\* the pieces of data: two catalog entries, a Siemens entry whose order number
\* has another shape, and a filler string
CatalogPiece(p) == <<ENTRY_CPU, ENTRY_DI, ENTRY_OTHER, ENTRY_FILLER>>[p]

\* the name and order number the catalog entries 1 and 2 carry
CatalogNameOf(p) == <<NAME_CPU_1214C, NAME_DI_16>>[p]

CatalogOrderOf(p) == <<ORDER_CPU_1214C, ORDER_DI_16>>[p]

MaxCatalogPieces == 3

MaxDevices == 3

\* a device as _parse_devices appends it, and one that an earlier catalog
\* entry has filled
BlankDevice == DeviceInfo(ROLE_CPU, TEMPLATE_T1, <<>>)

FilledDevice ==
    [BlankDevice EXCEPT !.name = NAME_PLC_OLD, !.order_number = ORDER_PLC_OLD,
                        !.manufacturer = LIT_SIEMENS]

CatalogInit ==
    /\ mode = "catalog"
    /\ parts \in SeqsUpTo(1..4, MaxCatalogPieces)
    /\ data = Concat([k \in 1..Len(parts) |-> CatalogPiece(parts[k])])
    /\ disk \in {[devices |-> ds] : ds \in SeqsUpTo({BlankDevice, FilledDevice}, MaxDevices)}
    /\ returned = <<>>
    /\ zlib_blocks = <<>>
    /\ i = 0 /\ strings = <<>> /\ pc = "idle" /\ last = NoIteration
    /\ tags = <<>> /\ parsed = FALSE

\* self._parse_hardware_catalog(data, strings, info) with info.devices = disk.devices
ParseCatalog ==
    /\ mode = "catalog"
    /\ returned = <<>>
    /\ returned' = <<ParseHardwareCatalog(data, 0, disk.devices)>>
    /\ UNCHANGED <<mode, parts, data, i, zlib_blocks, strings, pc, last, disk, tags, parsed>>

SpecCatalog == CatalogInit /\ [][ParseCatalog]_vars

\* the catalog entries of the data, in order
MatchesOf(ps) == SelectSeq(ps, LAMBDA p : p \in {1, 2})

\* how many devices in front of device d, d included, have neither a name nor
\* an order number
UnfilledUpTo(ds, d) ==
    Cardinality({x \in 1..d : ds[x].name = <<>> /\ ds[x].order_number = <<>>})

\* C23: the k-th match fills the k-th device that had neither a name nor an
\* order number, with its name and order number; a device that was filled
\* before and a device no match is left for stay as they were
C23_Backfill ==
    (mode = "catalog" /\ returned # <<>>) =>
      /\ Len(returned[1]) = Len(disk.devices)
      /\ \A d \in 1..Len(disk.devices) :
           IF /\ disk.devices[d].name = <<>> /\ disk.devices[d].order_number = <<>>
              /\ UnfilledUpTo(disk.devices, d) <= Len(MatchesOf(parts))
           THEN returned[1][d] =
                  [disk.devices[d] EXCEPT
                     !.name = CatalogNameOf(MatchesOf(parts)[UnfilledUpTo(disk.devices, d)]),
                     !.order_number = CatalogOrderOf(MatchesOf(parts)[UnfilledUpTo(disk.devices, d)]),
                     !.manufacturer = LIT_SIEMENS]
           ELSE returned[1][d] = disk.devices[d]

\* two matches met a filled device followed by one unfilled device
C23_Witness ==
    /\ mode = "catalog" /\ returned # <<>>
    /\ Len(MatchesOf(parts)) = 2
    /\ disk.devices = <<FilledDevice, BlankDevice>>
    /\ returned[1][1] = FilledDevice
    /\ returned[1][2].name = CatalogNameOf(MatchesOf(parts)[1])

-----------------------------------------------------------------------------
(* The window loop of _parse_devices applied to token lists built from      *)
(* groups                                                                   *)

\* b'IO'
TOK_ROLE_IO == <<73, 79>>

\* b'T2'
TOK_T2 == <<84, 50>>

\* b'42'
TOK_42 == <<52, 50>>

\* b'xy'
TOK_XY == <<120, 121>>

\* the groups of tokens: a device with all three markers, a device without
\* ObjectId, and a token that belongs to no device
TokenGroup(g) ==
    << <<LIT_ROLE, ROLE_CPU, LIT_TEMPLATE, TEMPLATE_T1, LIT_OBJECTID, TOK_42>>,
       <<LIT_ROLE, TOK_ROLE_IO, LIT_TEMPLATE, TOK_T2>>,
       <<TOK_XY>> >>[g]

MaxGroups == 4

WindowsInit ==
    /\ mode = "windows"
    /\ parts \in SeqsUpTo(1..3, MaxGroups)
    /\ strings = Concat([k \in 1..Len(parts) |-> TokenGroup(parts[k])])
    /\ returned = <<>>
    /\ data = <<>> /\ disk = "none" /\ zlib_blocks = <<>>
    /\ i = 0 /\ pc = "idle" /\ last = NoIteration
    /\ tags = <<>> /\ parsed = FALSE

\* lines 295-317 on the token list `strings`, info.devices empty before
ParseWindows ==
    /\ mode = "windows"
    /\ returned = <<>>
    /\ returned' = <<DeviceWindows(strings, 0, <<>>)>>
    /\ UNCHANGED <<mode, parts, data, i, zlib_blocks, strings, pc, last, disk, tags, parsed>>

SpecWindows == WindowsInit /\ [][ParseWindows]_vars

\* C24: every Role marker of the token list that is followed by its role and,
\* within the next 6 tokens, by a Template marker and its value, yields one
\* device with that role and a blank name; no other device is emitted
C24_DevicePerWindow ==
    (mode = "windows" /\ returned # <<>>) =>
      /\ \A k \in 1..Len(returned[1]) : returned[1][k].name = <<>>
      /\ Len(returned[1]) = Cardinality({g \in 1..Len(parts) : parts[g] \in {1, 2}})
      /\ \A g \in 1..Len(parts) :
           parts[g] \in {1, 2}
             => \E k \in 1..Len(returned[1]) :
                  /\ returned[1][k].role = TokenGroup(parts[g])[2]
                  /\ returned[1][k].template = TokenGroup(parts[g])[4]

-----------------------------------------------------------------------------
(* _parse_timestamps applied to two segments built from date-time texts     *)

\* b'3/14/2019 9:26:53 AM'
STAMP_A == <<51, 47, 49, 52, 47, 50, 48, 49, 57, 32, 57, 58, 50, 54, 58, 53, 51, 32, 65, 77>>

\* b'12/01/2020 11:20:55 PM'
STAMP_B == <<49, 50, 47, 48, 49, 47, 50, 48, 50, 48, 32, 49, 49, 58, 50, 48, 58, 53, 53, 32, 80, 77>>

\* b'xxxxxxxxxx'
STAMP_FILLER == <<120, 120, 120, 120, 120, 120, 120, 120, 120, 120>>

\* the pieces of a segment: two date-time texts and a filler
StampPiece(p) == <<STAMP_A, STAMP_B, STAMP_FILLER>>[p]

MaxStampPieces == 2

\* a segment of the list: its pieces, and whether it is a page of 4096 bytes
\* or holds the pieces only
StampSegment(s) ==
    LET text == Concat([k \in 1..Len(s.pieces) |-> StampPiece(s.pieces[k])])
        body == IF s.page THEN Pad(text) ELSE text
    IN  [offset |-> 0, comp_size |-> Len(body) + 11, data |-> body, size |-> Len(body)]

\* the first segment is a page; the second is a page or a shorter segment of
\* at least 10 bytes
StampsInit ==
    /\ mode = "stamps"
    /\ parts \in {<<[pieces |-> a, page |-> TRUE], [pieces |-> b, page |-> pg]>> :
                    a \in SeqsUpTo(1..3, MaxStampPieces),
                    b \in SeqsUpTo(1..3, MaxStampPieces) \ {<<>>},
                    pg \in BOOLEAN}
    /\ zlib_blocks = [k \in 1..2 |-> StampSegment(parts[k])]
    /\ returned = <<>>
    /\ data = <<>> /\ disk = "none"
    /\ i = 0 /\ strings = <<>> /\ pc = "idle" /\ last = NoIteration
    /\ tags = <<>> /\ parsed = FALSE

\* self._parse_timestamps(info), info.timestamps empty before
ParseStamps ==
    /\ mode = "stamps"
    /\ returned = <<>>
    /\ returned' = <<ParseTimestamps(zlib_blocks, <<>>)>>
    /\ UNCHANGED <<mode, parts, data, i, zlib_blocks, strings, pc, last, disk, tags, parsed>>

SpecStamps == StampsInit /\ [][ParseStamps]_vars

\* s without the elements that occurred before
RECURSIVE Distinct(_)
Distinct(s) ==
    IF s = <<>> THEN <<>>
    ELSE LET front == Distinct(SubSeq(s, 1, Len(s) - 1))
         IN  IF \E k \in 1..Len(front) : front[k] = s[Len(s)] THEN front
             ELSE Append(front, s[Len(s)])

\* the date-time texts of the chosen segments, in segment order and then in
\* the order they stand in the segment
StampsIn(segs) ==
    LET ps == Concat([k \in 1..Len(segs) |-> segs[k].pieces])
        ts == SelectSeq(ps, LAMBDA p : p \in {1, 2})
    IN  [k \in 1..Len(ts) |-> StampPiece(ts[k])]

\* the timestamp list holds the distinct date-time texts of every segment
C25_Original ==
    (mode = "stamps" /\ returned # <<>>) => returned[1] = Distinct(StampsIn(parts))

\* C25: the timestamp list holds the distinct date-time texts of the segments
\* of exactly 4096 bytes, each once, in the order of first discovery; a
\* date-time text in a segment of another size is not collected
C25_DistinctInOrder ==
    (mode = "stamps" /\ returned # <<>>) =>
      returned[1] = Distinct(StampsIn(SelectSeq(parts, LAMBDA s : s.page)))

\* a text was met a second time in the second page, behind a new one
C25_Witness ==
    /\ mode = "stamps" /\ returned # <<>>
    /\ parts[1].pieces = <<1, 1>>
    /\ parts[2].pieces = <<2, 1>> /\ parts[2].page
    /\ returned[1] = <<STAMP_A, STAMP_B>>

-----------------------------------------------------------------------------
(* Properties of the exporter's tag list                                    *)

\* for each of the first n pages of the file: whether it is an interface page,
\* the block name found for it and what _parse_members_xml returns for it
RECURSIVE PageTags(_)
PageTags(n) ==
    IF n = 0 THEN <<>>
    ELSE Append(PageTags(n - 1),
           IF ~IsTagPage(PageSegment(n)) THEN [block_name |-> <<>>, members |-> <<>>]
           ELSE Let(PageText(n), LAMBDA text :
                Let(IdentifyBlock(disk.plf.pages[n], text), LAMBDA block_name :
                    [block_name |-> block_name,
                     members |-> ParseMembersXml(text, block_name)])))

\* block name, ':', and the names of the first five members with commas between
PageSignature(pg) ==
    pg.block_name \o <<58>>
      \o JoinWith([k \in 1..Min(Len(pg.members), 5) |-> pg.members[k].name], <<44>>)

\* C26: the tag list is made of the members of every interface page whose
\* signature (block name and first five member names) no earlier page had,
\* all of them and in page order; a page whose signature an earlier page had
\* adds nothing
C26_DedupBySignature ==
    (mode = "export" /\ disk.plf.exists /\ returned # <<>>) =>
      Let(PageTags(Len(disk.plf.pages)), LAMBDA pgs :
        \A r \in 1..Len(returned) :
          ~returned[r].raised
            => returned[r].tags =
                 Concat([p \in 1..Len(pgs) |->
                           IF /\ pgs[p].members # <<>>
                              /\ \A q \in 1..(p - 1) :
                                   pgs[q].members # <<>>
                                     => PageSignature(pgs[q]) # PageSignature(pgs[p])
                           THEN pgs[p].members ELSE <<>>]))

\* a page was dropped for its signature while a page with the same block name
\* and first member was kept
C26_Witness ==
    /\ mode = "export" /\ disk.plf.exists
    /\ Len(disk.plf.pages) = 3
    /\ Len(returned) > 0 /\ ~returned[1].raised
    /\ Let(PageTags(3), LAMBDA pgs :
         /\ pgs[1].members # <<>> /\ pgs[2].members # <<>>
         /\ PageSignature(pgs[3]) = PageSignature(pgs[1])
         /\ pgs[2].block_name = pgs[1].block_name
         /\ pgs[2].members[1].name = pgs[1].members[1].name
         /\ returned[1].tags = pgs[1].members \o pgs[2].members)

-----------------------------------------------------------------------------
(* Properties of the CPU name                                               *)

\* the tokens of the chosen pages of the file, in page order
TokensOfPages(chosen(_)) ==
    Concat([p \in 1..Len(disk.plf.pages) |->
              IF chosen(p) THEN ExtractLengthPrefixedStrings(disk.plf.pages[p]) ELSE <<>>])

\* the first token of toks with the shape, <<>> if there is none
FirstToken(toks, shape(_)) ==
    IF \E k \in 1..Len(toks) : shape(toks[k])
    THEN toks[CHOOSE k \in 1..Len(toks) :
                shape(toks[k]) /\ \A j \in 1..(k - 1) : ~shape(toks[j])]
    ELSE <<>>

\* the name and order number that the claim's three rules give for the tokens
\* toks and the device list devices
NamedBy(toks, devices) ==
    LET name  == FirstToken(toks, IsCpuName)
        order == FirstToken(toks, IsCpuOrder)
        devs  == {k \in 1..Len(devices) :
                    devices[k].order_number # <<>> /\ Contains(devices[k].name, LIT_CPU)}
        first == CHOOSE k \in devs : \A j \in devs : k <= j
    IN  IF name # <<>> THEN [name |-> name, order_number |-> order]
        ELSE IF devs # {}
          THEN [name |-> devices[first].name, order_number |-> devices[first].order_number]
        ELSE [name |-> LIT_UNKNOWN_CPU, order_number |-> order]

\* the secondary search runs over the tokens of every segment
C27_Original ==
    (mode = "read" /\ disk.plf.exists) =>
      \A r \in 1..Len(returned) :
        (~returned[r].raised /\ returned[r].info.cpu.present) =>
          Let(NamedBy(TokensOfPages(LAMBDA p : TRUE), returned[r].info.devices), LAMBDA n :
              /\ returned[r].info.cpu.name = n.name
              /\ returned[r].info.cpu.order_number = n.order_number)

\* C27: the CPU name and order number are the first token shaped like a CPU
\* model name and the first token shaped like an order number among the tokens
\* of the segments of exactly 4096 bytes that hold both "Siemens" and "6ES7";
\* when these hold no name, both are taken from the first device that has an
\* order number and whose name contains "CPU"; when there is no such device
\* either, the name is "Unknown CPU"
C27_CpuName ==
    (mode = "read" /\ disk.plf.exists) =>
      \A r \in 1..Len(returned) :
        (~returned[r].raised /\ returned[r].info.cpu.present) =>
          Let(NamedBy(TokensOfPages(LAMBDA p :
                        /\ Len(disk.plf.pages[p]) = PAGE_SIZE
                        /\ Contains(disk.plf.pages[p], LIT_SIEMENS)
                        /\ Contains(disk.plf.pages[p], LIT_6ES7)),
                      returned[r].info.devices), LAMBDA n :
              /\ returned[r].info.cpu.name = n.name
              /\ returned[r].info.cpu.order_number = n.order_number)

\* read() took the CPU name from the device list
C27_Witness ==
    /\ mode = "read" /\ disk.plf.exists
    /\ Len(returned) > 0 /\ ~returned[1].raised
    /\ returned[1].info.cpu.present
    /\ returned[1].info.devices # <<>>
    /\ returned[1].info.cpu.name = returned[1].info.devices[1].name
    /\ ~IsCpuName(returned[1].info.cpu.name)
    /\ returned[1].info.cpu.name # LIT_UNKNOWN_CPU

-----------------------------------------------------------------------------
(* The two scanners side by side on one buffer, one loop iteration of each  *)
(* per step.  i and zlib_blocks are the reader's cursor and list,          *)
(* returned holds the exporter's.                                           *)

PairInit ==
    /\ mode = "pair"
    /\ parts \in SeqsUpTo(ChunkIds, MaxChunks)
    /\ data = BufferOf(parts)
    /\ i = 0
    /\ zlib_blocks = <<>>
    /\ returned = [i |-> 0, blocks |-> <<>>]
    /\ pc = "loop"
    /\ last = NoIteration
    /\ strings = <<>> /\ disk = "none" /\ tags = <<>> /\ parsed = FALSE

\* each scanner whose loop condition holds runs one iteration
PairLoop ==
    /\ pc = "loop"
    /\ ScanGuard(data, i) \/ TagScanGuard(data, returned.i)
    /\ IF ScanGuard(data, i)
       THEN \E s \in {ScanStep(data, i, zlib_blocks)} :
              /\ i' = s.i
              /\ zlib_blocks' = s.blocks
       ELSE UNCHANGED <<i, zlib_blocks>>
    /\ returned' = IF TagScanGuard(data, returned.i)
                   THEN TagScanStep(data, returned.i, returned.blocks)
                   ELSE returned
    /\ last' = [pos |-> i, outcome |-> Outcome(data, i), nblocks |-> Len(zlib_blocks)]
    /\ UNCHANGED <<mode, parts, data, strings, pc, disk, tags, parsed>>

\* both loops have ended
PairExit ==
    /\ pc = "loop"
    /\ ~ScanGuard(data, i) /\ ~TagScanGuard(data, returned.i)
    /\ pc' = "done"
    /\ UNCHANGED <<mode, parts, data, i, zlib_blocks, strings, last, disk, returned, tags, parsed>>

SpecScanPair == PairInit /\ [][PairLoop \/ PairExit]_vars

\* a reader segment as the exporter keeps it
AsTagBlock(seg) == [offset |-> seg.offset, data |-> seg.data, size |-> seg.size]

\* C28: the reader's scanner and the exporter's scanner are equivalent: run
\* on the same buffer, after every iteration both are at the same cursor
\* position and hold the same segments, with equal offset, payload and payload
\* length at each index, and what each returns for the buffer is the same
C28_ScannersEquivalent ==
    mode = "pair" =>
      /\ returned.i = i
      /\ returned.blocks = [k \in 1..Len(zlib_blocks) |-> AsTagBlock(zlib_blocks[k])]
      /\ pc = "done" =>
           /\ TagBlocks(data) = returned.blocks
           /\ ExtractZlibBlocks(data, <<>>) = zlib_blocks

\* both scanners finished a buffer in which they accepted two segments and
\* passed a signature that was not accepted
C28_Witness ==
    /\ mode = "pair" /\ pc = "done"
    /\ Len(zlib_blocks) = 2 /\ Len(returned.blocks) = 2
    /\ returned.blocks[2].offset = zlib_blocks[2].offset
    /\ \E k \in 0..(Len(data) - 3) :
         /\ IsSignature(data, k)
         /\ \A b \in 1..2 : zlib_blocks[b].offset # k
         /\ \A b \in 1..2 : ~(zlib_blocks[b].offset < k /\ k < zlib_blocks[b].offset + zlib_blocks[b].comp_size)

-----------------------------------------------------------------------------
(* One exporter under calls of parse(), export_csv() and export_excel(),     *)
(* at most MaxCalls calls in one behaviour.  i counts the calls; returned    *)
(* holds the record of the last call: what it returned or wrote, how often   *)
(* the exporter has read the container so far, and how many calls have       *)
(* found it missing.  A container that is missing may be put in place        *)
(* between two calls.                                                        *)

MaxCalls == 3

\* the PLF files the exporter is called on: the same page twice, pages of
\* one block that repeat, two pages of members
CallFiles == {6, 13, 14}

\* the project directories without a PLF file or with one of CallFiles
CallDisks ==
    {[present |-> TRUE, ap |-> NoAp, plf |-> plf, xref |-> NoXref] :
       plf \in {NoPlf} \cup {PlfFile(f) : f \in CallFiles}}

CallsInit ==
    /\ mode = "calls"
    /\ disk \in CallDisks
    /\ tags = <<>>
    /\ parsed = FALSE
    /\ returned = <<>>
    /\ i = 0
    /\ parts = <<>> /\ strings = <<>> /\ pc = "idle" /\ last = NoIteration
    /\ data = <<>> /\ zlib_blocks = <<>>

\* how often the exporter has read the container
Reads == IF returned = <<>> THEN 0 ELSE returned[1].reads

\* how many calls have raised FileNotFoundError
Missing == IF returned = <<>> THEN 0 ELSE returned[1].missing

\* the record of a call that ran parse() with result r
CallRecord(call, r) ==
    [call |-> call, raised |-> r.raised, tags |-> IF r.raised THEN <<>> ELSE r.tags,
     reads |-> Reads + (IF ~parsed /\ disk.plf.exists THEN 1 ELSE 0),
     missing |-> Missing + (IF ~parsed /\ ~disk.plf.exists THEN 1 ELSE 0)]

\* exporter.parse()
CallParse ==
    /\ mode = "calls"
    /\ i < MaxCalls
    /\ \E r \in {ParseProject(disk, tags, parsed)} :
           /\ tags' = r.tags
           /\ parsed' = r.parsed
           /\ returned' = <<CallRecord("parse", r)>>
    /\ i' = i + 1
    /\ UNCHANGED <<mode, parts, data, zlib_blocks, strings, pc, last, disk>>

\* exporter.export_csv(filepath): `if not self._parsed: self.parse()`, then
\* one row per tag of self._tags is written
ExportCsv ==
    /\ mode = "calls"
    /\ i < MaxCalls
    /\ \E r \in {IF ~parsed THEN ParseProject(disk, tags, parsed)
                 ELSE [raised |-> FALSE, tags |-> tags, parsed |-> parsed]} :
           /\ tags' = r.tags
           /\ parsed' = r.parsed
           /\ returned' = <<CallRecord("csv", r)>>
    /\ i' = i + 1
    /\ UNCHANGED <<mode, parts, data, zlib_blocks, strings, pc, last, disk>>

\* exporter.export_excel(filepath): ImportError before anything else when
\* openpyxl cannot be imported; otherwise `if not self._parsed: self.parse()`,
\* then the tags of self._tags are written
ExportExcel ==
    /\ mode = "calls"
    /\ i < MaxCalls
    /\ \E importable \in BOOLEAN :
         \E r \in {IF ~importable THEN [raised |-> TRUE, tags |-> tags, parsed |-> parsed]
                   ELSE IF ~parsed THEN ParseProject(disk, tags, parsed)
                   ELSE [raised |-> FALSE, tags |-> tags, parsed |-> parsed]} :
           /\ tags' = r.tags
           /\ parsed' = r.parsed
           /\ returned' = <<[CallRecord("excel", r) EXCEPT
                               !.reads = IF importable THEN @ ELSE Reads,
                               !.missing = IF importable THEN @ ELSE Missing]>>
    /\ i' = i + 1
    /\ UNCHANGED <<mode, parts, data, zlib_blocks, strings, pc, last, disk>>

\* between two calls a PEData.plf is put into a project that had none
RestoreContainer ==
    /\ mode = "calls"
    /\ ~disk.plf.exists
    /\ \E f \in CallFiles : disk' = [disk EXCEPT !.plf = PlfFile(f)]
    /\ UNCHANGED <<mode, parts, data, i, zlib_blocks, strings, pc, last, returned, tags, parsed>>

SpecCalls == CallsInit /\ [][CallParse \/ ExportCsv \/ ExportExcel \/ RestoreContainer]_vars

\* what one parse() of a new exporter returns for the container on disk
SingleParse == TagParseBlockInterfaces(TagBlocks(disk.plf.bytes), <<>>)

\* C29: after any sequence of parse(), export_csv() and export_excel() calls
\* on one exporter, an exporter that is parsed has read the container once
\* and holds exactly the tags of a single parse, which is also what the last
\* call returned or wrote; an exporter that is not parsed has never read the
\* container and holds no tags, and a call that found the container missing
\* leaves it so
C29_SingleParse ==
    mode = "calls" =>
      /\ parsed => /\ disk.plf.exists
                   /\ Reads = 1
                   /\ tags = SingleParse
                   /\ \A r \in 1..Len(returned) :
                        ~returned[r].raised => returned[r].tags = tags
      /\ ~parsed => /\ Reads = 0
                    /\ tags = <<>>
                    /\ \A r \in 1..Len(returned) : returned[r].raised

\* a call failed on a missing container, a container with a repeated page
\* was put in place, and after two more calls, the last an export, the
\* exporter holds tags
C29_Witness ==
    /\ mode = "calls"
    /\ i = 3 /\ parsed /\ tags # <<>>
    /\ Missing = 1
    /\ returned[1].call \in {"csv", "excel"} /\ ~returned[1].raised
    /\ Reads = 1
    /\ \E k \in 1..Len(disk.plf.pages) : \E j \in 1..(k - 1) :
         disk.plf.pages[j] = disk.plf.pages[k]

====
